---- MODULE Spec2Model ----
(***************************************************************************)
(* A model of the baseline JPEG decoder of wangrunji0408/jpeg: the marker  *)
(* scanner (marker.rs), the header loop (lib.rs), the DHT parser           *)
(* (huffman.rs), the bit reader and the MCU reader (mcu.rs).               *)
(*                                                                         *)
(* Bytes are integers 0..255.  Rust integer types keep their width: u8,    *)
(* u16, i16 and u32 arithmetic is modelled with explicit wrapping, and an  *)
(* arithmetic overflow or a debug_assert! panics exactly when the build    *)
(* profile checks it ("debug") and wraps / is skipped otherwise            *)
(* ("release").  A panic ends the process: status leaves "run" and no      *)
(* operation is enabled any more.                                          *)
(***************************************************************************)
EXTENDS Integers, Sequences, FiniteSets, TLC

VARIABLES
    stream,     \* the bytes of the underlying byte source
    profile,    \* "debug" | "release": overflow checks and debug assertions
    chunk,      \* bytes one read of the source hands to BufReader::fill_buf
    reader,     \* BitReader: [pos, bend, buf, count]; pos/bend are BufReader's
    status,     \* "run", or the way the process or the call ended
    last,       \* the last operation and what it returned
    nbits,      \* bits taken by consume so far (history)
    dec,        \* Decoder: [pos] of its BufReader, and the locals of Decoder::read
    mcu_reader, \* McuReader: [sof, qts, huffman_tables, last_dc, i, total, reset_interval]
    scan        \* what the entropy-coded data of the stream was encoded from (history)

vars == <<stream, profile, chunk, reader, status, last, nbits, dec, mcu_reader, scan>>

\* ------------------------------------------------------------------ bounds

\* Length of the byte streams handed to the bit reader.
StreamLen == 3

\* ------------------------------------------------------------- arithmetic

Pow2(n) == 2 ^ n

Min(a, b) == IF a < b THEN a ELSE b

\* x as i16 (two's complement wrap of an integer).
WrapI16(x) == ((x + 32768) % 65536) - 32768

FitsI16(x) == x >= -32768 /\ x <= 32767

\* u32 `x << 8`: the bits shifted out at the top are lost.
Shl8(x) == (x % Pow2(24)) * 256

Profiles == {"debug", "release"}

\* `let x = v; F(x)`: v is evaluated once and bound.
Let(v, F(_)) == CHOOSE y \in {F(x) : x \in {v}} : TRUE

\* ------------------------------------------------------------- bit reader

\* No McuReader has been made.
NoMcuReader == [i |-> 0, total |-> 0]

\* BitReader::new: an empty accumulator over a fresh BufReader.
NewBitReader == [pos |-> 0, bend |-> 0, buf |-> 0, count |-> 0]

\* BufReader::fill_buf: refill only when the buffer is empty.
FillBuf(r) ==
    IF r.pos < r.bend THEN r
    ELSE [r EXCEPT !.bend = Min(r.pos + chunk, Len(stream))]

\* BitReader::read_byte: `fill_buf()?[0]` indexes an empty slice at EOF.
ReadByte(r) ==
    Let(FillBuf(r), LAMBDA f :
        IF f.pos >= Len(stream)
        THEN [st |-> "panic_index", r |-> f, b |-> 0]
        ELSE [st |-> "ok", r |-> [f EXCEPT !.pos = @ + 1], b |-> stream[f.pos + 1]])

\* `self.buf = (self.buf << 8) | b; self.count += 8`
ShiftIn(r, b) == [r EXCEPT !.buf = Shl8(@) + b, !.count = @ + 8]

\* A refill that takes a stuffed 0x00 for a data byte: it leaves it in the stream.
PeekStepNoSkip(s, n) ==
    IF s.st # "ok" \/ s.r.count >= n THEN s
    ELSE Let(ReadByte(s.r), LAMBDA b :
            IF b.st # "ok" THEN [st |-> b.st, r |-> b.r]
            ELSE [st |-> "ok", r |-> ShiftIn(b.r, b.b)])

\* One iteration of the loop of BitReader::peek.
PeekStep(s, n) ==
    IF s.st # "ok" \/ s.r.count >= n THEN s
    ELSE Let(ReadByte(s.r), LAMBDA b :
            IF b.st # "ok" THEN [st |-> b.st, r |-> b.r]
            ELSE IF b.b # 255 THEN [st |-> "ok", r |-> ShiftIn(b.r, b.b)]
            ELSE Let(ReadByte(ShiftIn(b.r, b.b)), LAMBDA c :
                    IF c.st # "ok" THEN [st |-> c.st, r |-> c.r]
                    ELSE IF c.b # 0
                         THEN [st |-> "ok", r |-> ShiftIn(c.r, 0)]
                         ELSE [st |-> "ok", r |-> c.r]))

\* u32 `x >> k` for x < 2^31 and a shift amount k < 32.
ShrU32(x, k) == IF k >= 31 THEN 0 ELSE x \div Pow2(k)

\* The amount a release build shifts a u32 by when the u8 amount is
\* count - n: the subtraction wraps in u8, the shift takes the low 5 bits.
ShiftAmount(count, n) == ((count - n) % 256) % 32

\* BitReader::peek(n): `debug_assert!(n <= 16)`, at most two refills, then
\* `(self.buf >> (self.count - n)) as u16`.  With 1 <= n <= 16 the refills
\* give count >= n; a release build runs with any n.
Peek(r, n) ==
    IF n > 16 /\ profile = "debug" THEN [st |-> "panic_assert", r |-> r, v |-> 0]
    ELSE
    Let(PeekStep([st |-> "ok", r |-> r], n), LAMBDA s1 :
    Let(PeekStep(s1, n), LAMBDA s :
        IF s.st = "ok" /\ profile = "debug" /\ s.r.count - n \notin 0..31
        THEN [st |-> "panic_overflow", r |-> s.r, v |-> 0]
        ELSE [st |-> s.st, r |-> s.r,
              v |-> IF s.st = "ok"
                    THEN ShrU32(s.r.buf, ShiftAmount(s.r.count, n)) % 65536 ELSE 0]))

\* BitReader::consume(n): `self.count -= n; self.buf &= (1 << self.count) - 1`.
\* A debug build comes here with n <= count only (peek stops it before); in
\* a release build the u8 subtraction wraps and the shift takes the low 5
\* bits of count.  buf < 2^31 in every state.
Consume(r, n) ==
    Let((r.count - n) % 256, LAMBDA c :
        [r EXCEPT !.count = c,
                  !.buf = IF c % 32 = 31 THEN r.buf ELSE r.buf % Pow2(c % 32)])

\* i16 `v >> k` (arithmetic).
SarI16(v, k) == IF v >= 0 THEN v \div Pow2(k) ELSE -(((-v) - 1) \div Pow2(k)) - 1

\* BitReader::read_value(len) in i16 arithmetic:
\* v = peek(len) as i16; if v >> (len - 1) == 0 { v -= (1 << len) - 1 }.
\* A shift of an i16 by 16 or more stops a debug build; a release build
\* takes the low 4 bits of the amount.
ReadValue(r, len) ==
    IF len = 0 THEN [st |-> "ok", r |-> r, v |-> 0]
    ELSE Let(Peek(r, len), LAMBDA p :
            IF p.st # "ok" THEN [st |-> p.st, r |-> p.r, v |-> 0]
            ELSE IF SarI16(WrapI16(p.v), (len - 1) % 16) # 0
            THEN [st |-> "ok", r |-> Consume(p.r, len), v |-> WrapI16(p.v)]
            ELSE IF len >= 16 /\ profile = "debug"
            THEN [st |-> "panic_overflow", r |-> p.r, v |-> 0]
            ELSE Let(WrapI16(Pow2(len % 16)) - 1, LAMBDA mask :
                    IF profile = "debug"
                       /\ (~FitsI16(mask) \/ ~FitsI16(WrapI16(p.v) - WrapI16(mask)))
                    THEN [st |-> "panic_overflow", r |-> p.r, v |-> 0]
                    ELSE [st |-> "ok", r |-> Consume(p.r, len),
                          v |-> WrapI16(WrapI16(p.v) - WrapI16(mask))]))

\* ---------------------------------------------------- bit reader: actions

\* The byte values the streams are built from: 0x00, 0xAA, 0xD0 (RST0), 0xFF.
Bytes == {0, 170, 208, 255}

Streams == [1..StreamLen -> Bytes]

\* Bytes one read of the source returns: single bytes, or up to three at once.
ChunkSizes == {1, 3}

PeekSizes == {1, 7, 16}
ConsumeSizes == {1, 4}
ValueLens == {0, 3, 14, 15}

NoCall == [op |-> "none", n |-> 0, v |-> 0, st |-> "ok"]

InitBits ==
    /\ stream \in Streams
    /\ profile \in Profiles
    /\ chunk \in ChunkSizes
    /\ reader = NewBitReader
    /\ status = "run"
    /\ last = NoCall
    /\ nbits = 0
    /\ dec = [pos |-> 0]
    /\ mcu_reader = NoMcuReader
    /\ scan = <<>>

DoPeek(n) ==
    /\ status = "run"
    /\ \E p \in {Peek(reader, n)} :
       /\ reader' = p.r
       /\ status' = IF p.st = "ok" THEN "run" ELSE p.st
       /\ last' = [op |-> "peek", n |-> n, v |-> p.v, st |-> p.st]
    /\ UNCHANGED <<stream, profile, chunk, nbits, dec, mcu_reader, scan>>

DoConsume(n) ==
    /\ status = "run"
    /\ n <= reader.count
    /\ reader' = Consume(reader, n)
    /\ nbits' = nbits + n
    /\ last' = [op |-> "consume", n |-> n, v |-> 0, st |-> "ok"]
    /\ UNCHANGED <<stream, profile, chunk, status, dec, mcu_reader, scan>>

DoReadValue(len) ==
    /\ status = "run"
    /\ \E p \in {ReadValue(reader, len)} :
       /\ reader' = p.r
       /\ status' = IF p.st = "ok" THEN "run" ELSE p.st
       /\ last' = [op |-> "read_value", n |-> len, v |-> p.v, st |-> p.st]
       /\ nbits' = IF p.st = "ok" THEN nbits + len ELSE nbits
    /\ UNCHANGED <<stream, profile, chunk, dec, mcu_reader, scan>>

NextBits ==
    \/ \E n \in PeekSizes : DoPeek(n)
    \/ \E n \in ConsumeSizes : DoConsume(n)
    \/ \E len \in ValueLens : DoReadValue(len)

SpecBits == InitBits /\ [][NextBits]_vars

\* ------------------------------------------- bit reader: reference and claims

\* The bytes the reader has taken from the source so far.
Taken == SubSeq(stream, 1, reader.pos)

\* bs is entropy data only: bytes other than 0xFF, and pairs 0xFF 0x00.
RECURSIVE Clean(_)
Clean(bs) ==
    IF bs = <<>> THEN TRUE
    ELSE IF Head(bs) # 255 THEN Clean(Tail(bs))
    ELSE Len(bs) >= 2 /\ bs[2] = 0 /\ Clean(SubSeq(bs, 3, Len(bs)))

\* Entropy data with every pair 0xFF 0x00 replaced by 0xFF.
RECURSIVE Destuff(_)
Destuff(bs) ==
    IF bs = <<>> THEN <<>>
    ELSE IF Head(bs) # 255 THEN <<Head(bs)>> \o Destuff(Tail(bs))
    ELSE <<255>> \o Destuff(SubSeq(bs, 3, Len(bs)))

\* Bit k (1 = the most significant bit of the first byte) of the bytes ds.
BitAt(ds, k) == (ds[((k - 1) \div 8) + 1] \div Pow2(7 - ((k - 1) % 8))) % 2

\* The bits from+1 .. from+n of ds as an unsigned integer.
RECURSIVE BitsVal(_, _, _)
BitsVal(ds, from, n) ==
    IF n = 0 THEN 0 ELSE 2 * BitsVal(ds, from, n - 1) + BitAt(ds, from + n)

\* The signed value JPEG assigns to the len-bit field raw.
Extend(raw, len) == IF raw >= Pow2(len - 1) THEN raw ELSE raw - (Pow2(len) - 1)

\* C4: over entropy data (no marker taken), the accumulator holds exactly the
\* destuffed bits that were read and not yet consumed -- every byte other than
\* 0xFF gives its 8 bits, every pair 0xFF 0x00 gives the 8 bits of 0xFF and both
\* bytes leave the stream -- and peek(n) returns the next n of those bits,
\* right-aligned, consuming none.
C4_StuffedBits ==
    (status = "run" /\ Clean(Taken)) =>
        LET ds == Destuff(Taken) IN
        /\ nbits + reader.count = 8 * Len(ds)
        /\ reader.buf = BitsVal(ds, nbits, reader.count)
        /\ (last.op = "peek" => last.v = BitsVal(ds, nbits, last.n))

\* C4 witness: a peek that follows a consume and spans a stuffed pair and the
\* byte after it.
C4_Witness ==
    /\ status = "run" /\ last.op = "peek" /\ last.n = 7 /\ nbits = 4
    /\ Taken = <<255, 0, 170>>
    /\ last.v = 125

\* C5 (as claimed): every read_value(len), 1 <= len <= 15, that finds its bits
\* returns without an overflow, consumes exactly len bits and yields raw when
\* bit len-1 of raw is set and raw - (2^len - 1) otherwise; read_value(0)
\* returns 0, consumes no bits and reads no bytes.
C5_Step ==
    (status = "run" /\ last'.op = "read_value" /\ last'.st # "panic_index"
        /\ Clean(SubSeq(stream, 1, reader'.pos)))
    => /\ last'.st = "ok"
       /\ nbits' = nbits + last'.n
       /\ last'.n = 0 => (last'.v = 0 /\ reader' = reader)
       /\ last'.n > 0 =>
            LET ds == Destuff(SubSeq(stream, 1, reader'.pos)) IN
            /\ nbits' + reader'.count = 8 * Len(ds)
            /\ last'.v = Extend(BitsVal(ds, nbits, last'.n), last'.n)

C5_ReadValue == [][C5_Step]_vars

\* The bytes that may follow 0xFF in entropy data: 0x00, RST0..RST7, EOI.
AfterPrefix == {0} \cup (208..215) \cup {217}

\* bs, read pair-wise as the refill reads it, has a 0xFF followed by a byte
\* that is none of those.
RECURSIVE Stray(_)
Stray(bs) ==
    IF Len(bs) < 2 THEN FALSE
    ELSE IF Head(bs) # 255 THEN Stray(Tail(bs))
    ELSE bs[2] \notin AfterPrefix \/ Stray(SubSeq(bs, 3, Len(bs)))

\* C12 (as claimed): once a refill has taken 0xFF and then a byte that is
\* neither 0x00 nor RSTn nor EOI, the peek has failed with an error result.
C12_StrayMarker == Stray(Taken) => status = "err_invalid"

\* ------------------------------------------------------- Decoder: byte input

\* Decoder::read_byte: read_exact of one byte; end of file is an Err.
DecReadByte(pos) ==
    IF pos < Len(stream)
    THEN [st |-> "ok", pos |-> pos + 1, b |-> stream[pos + 1]]
    ELSE [st |-> "err_eof", pos |-> pos, b |-> 0]

\* Decoder::read_u16: read_exact of two bytes, big-endian.
DecReadU16(pos) ==
    IF pos + 2 <= Len(stream)
    THEN [st |-> "ok", pos |-> pos + 2, v |-> 256 * stream[pos + 1] + stream[pos + 2]]
    ELSE [st |-> "err_eof", pos |-> Len(stream), v |-> 0]

\* u16 `a - b`: [st, v]; an underflow panics under overflow checks, else wraps.
SubU16(a, b) ==
    IF a < b /\ profile = "debug" THEN [st |-> "panic_overflow", v |-> 0]
    ELSE [st |-> "ok", v |-> (a - b) % 65536]

\* ------------------------------------------------------------------- DHT

\* HuffmanTableClass: DC0, DC1, AC0, AC1.
HuffmanTableClasses == {0, 1, 16, 17}

\* Code::default: the empty bit string, as the integer 1.
CodeDefault == 1

\* Code::len of Code(c): u16::BITS - 1 - leading_zeros.
RECURSIVE CodeLen(_)
CodeLen(c) == IF c <= 1 THEN 0 ELSE 1 + CodeLen(c \div 2)

\* Code::value of Code(c): the bits below the leading 1.
CodeValue(c) == c - Pow2(CodeLen(c))

\* HashMap::insert: a later insert of the same key replaces the entry.
MapInsert(m, k, v) == [x \in (DOMAIN m) \cup {k} |-> IF x = k THEN v ELSE m[x]]

\* The inner loop of read_huffman_table: n symbols get consecutive codes.
\* s = [st, pos, len, code, map].
RECURSIVE HuffInsert(_, _)
HuffInsert(s, n) ==
    IF s.st # "ok" \/ n = 0 THEN s
    ELSE Let(DecReadByte(s.pos), LAMBDA b :
            IF b.st # "ok" THEN [s EXCEPT !.st = b.st, !.pos = b.pos]
            ELSE IF s.code + 1 > 65535 /\ profile = "debug"      \* code.inc()
            THEN [s EXCEPT !.st = "panic_overflow", !.pos = b.pos,
                           !.map = MapInsert(@, s.code, b.b)]
            ELSE Let([s EXCEPT !.pos = b.pos,
                               !.map = MapInsert(@, s.code, b.b),
                               !.code = (s.code + 1) % 65536],
                     LAMBDA s2 : HuffInsert(s2, n - 1)))

\* `for &count in &counts[0..15]`: the lengths l .. 15 of one table.
RECURSIVE HuffLengths(_, _, _)
HuffLengths(s, l, counts) ==
    IF s.st # "ok" \/ l > 15 THEN s
    ELSE IF s.code * 2 > 65535 /\ profile = "debug"              \* code.double()
    THEN [s EXCEPT !.st = "panic_overflow"]
    ELSE Let(HuffInsert([s EXCEPT !.code = (s.code * 2) % 65536], counts[l]),
             LAMBDA s1 :
                IF s1.st # "ok" THEN s1
                ELSE Let(SubU16(s1.len, counts[l]), LAMBDA d :
                        IF d.st # "ok" THEN [s1 EXCEPT !.st = d.st]
                        ELSE Let([s1 EXCEPT !.len = d.v],
                                 LAMBDA s2 : HuffLengths(s2, l + 1, counts))))

\* One table of the segment: class byte, 16 counts, the symbols.
\* t = [st, pos, len, tables].
HuffOneTable(t) ==
    Let(DecReadByte(t.pos), LAMBDA b :
        IF b.st # "ok" THEN [t EXCEPT !.st = b.st, !.pos = b.pos]
        ELSE IF b.b \notin HuffmanTableClasses
        THEN [t EXCEPT !.st = "err_invalid", !.pos = b.pos]
        ELSE IF b.pos + 16 > Len(stream)
        THEN [t EXCEPT !.st = "err_eof", !.pos = Len(stream)]
        ELSE Let(SubSeq(stream, b.pos + 1, b.pos + 16), LAMBDA counts :
             Let(SubU16(t.len, 17), LAMBDA d :
                IF d.st # "ok" THEN [t EXCEPT !.st = d.st, !.pos = b.pos + 16]
                ELSE IF counts[16] # 0                 \* assert_eq!(counts[15], 0)
                THEN [t EXCEPT !.st = "panic_assert", !.pos = b.pos + 16, !.len = d.v]
                ELSE Let(HuffLengths([st |-> "ok", pos |-> b.pos + 16, len |-> d.v,
                                      code |-> CodeDefault, map |-> << >>],
                                     1, counts),
                         LAMBDA r :
                            [st |-> r.st, pos |-> r.pos, len |-> r.len,
                             tables |-> IF r.st = "ok"
                                        THEN Append(t.tables,
                                                    [class |-> b.b, map |-> r.map])
                                        ELSE t.tables]))))

\* `while len != 0`: the tables of the segment.
RECURSIVE HuffTables(_)
HuffTables(t) ==
    IF t.st # "ok" \/ t.len = 0 THEN t
    ELSE Let(HuffOneTable(t), LAMBDA t2 : HuffTables(t2))

\* Decoder::read_huffman_table from position pos: [st, pos, tables].
ReadHuffmanTable(pos) ==
    Let(DecReadU16(pos), LAMBDA h :
        IF h.st # "ok" THEN [st |-> h.st, pos |-> h.pos, tables |-> <<>>]
        ELSE Let(SubU16(h.v, 2), LAMBDA d :
                IF d.st # "ok" THEN [st |-> d.st, pos |-> h.pos, tables |-> <<>>]
                ELSE Let(HuffTables([st |-> "ok", pos |-> h.pos, len |-> d.v,
                                     tables |-> <<>>]),
                         LAMBDA t : [st |-> t.st, pos |-> t.pos, tables |-> t.tables])))

\* ----------------------------------------------------------- DHT: actions

\* The largest count tried at the lengths 1, 2 and 3.
MaxCount == 3

\* A count vector with codes at the lengths 1, 2, 3, 15 and 16 only.
CountVec(a, b, c, d, e) ==
    [l \in 1..16 |-> CASE l = 1 -> a [] l = 2 -> b [] l = 3 -> c
                       [] l = 15 -> d [] l = 16 -> e [] OTHER -> 0]

\* The count vector of the DC table of tests::test_huffman_table.
TestCounts == <<0, 1, 5, 1, 1, 1, 1, 1, 1, 0, 0, 0, 0, 0, 0, 0>>

HuffCounts ==
    {CountVec(a, b, c, d, e) : a \in 0..MaxCount, b \in 0..MaxCount,
                               c \in 0..MaxCount, d \in 0..1, e \in 0..1}
        \cup {TestCounts}

RECURSIVE SumTo(_, _)
SumTo(L, l) == IF l = 0 THEN 0 ELSE L[l] + SumTo(L, l - 1)

\* A DHT segment (after its marker) with one table: length, class, counts, symbols.
DhtSegment(class, L, base) ==
    <<0, 2 + 17 + SumTo(L, 16), class>> \o L
        \o [k \in 1..SumTo(L, 16) |-> (base + k - 1) % 256]

InitHuff ==
    /\ \E class \in {0, 17, 2}, L \in HuffCounts, base \in {0, 16} :
            stream = DhtSegment(class, L, base)
    /\ profile \in Profiles
    /\ chunk = 1
    /\ reader = NewBitReader
    /\ status = "run"
    /\ last = NoCall
    /\ nbits = 0
    /\ dec = [pos |-> 0]
    /\ mcu_reader = NoMcuReader
    /\ scan = <<>>

DoReadHuffmanTable ==
    /\ status = "run"
    /\ last.op = "none"
    /\ \E r \in {ReadHuffmanTable(dec.pos)} :
        /\ dec' = [dec EXCEPT !.pos = r.pos]
        /\ status' = IF r.st \in {"ok", "err_eof", "err_invalid"} THEN "run" ELSE r.st
        /\ last' = [op |-> "read_huffman_table", st |-> r.st, tables |-> r.tables]
    /\ UNCHANGED <<stream, profile, chunk, reader, nbits, mcu_reader, scan>>

NextHuff == DoReadHuffmanTable

SpecHuff == InitHuff /\ [][NextHuff]_vars

\* ------------------------------------------- DHT: reference and claims

\* The count vector and the symbol list of the segment.
DhtCounts == SubSeq(stream, 4, 19)
DhtSymbols == SubSeq(stream, 20, Len(stream))

\* The counts describe a prefix code: sum of L_l * 2^-l is at most 1.
RECURSIVE KraftSum(_, _)
KraftSum(L, l) == IF l = 0 THEN 0 ELSE L[l] * Pow2(16 - l) + KraftSum(L, l - 1)
Kraft(L) == KraftSum(L, 16) <= Pow2(16)

\* Canonical assignment over the lengths l..16: code is the first code of
\* length l, k the number of symbols already given a code.
RECURSIVE CanonAt(_, _, _, _, _)
CanonAt(l, code, k, L, syms) ==
    IF l > 16 THEN {}
    ELSE {[len |-> l, bits |-> code + j, sym |-> syms[k + j + 1]] : j \in 0..(L[l] - 1)}
            \cup CanonAt(l + 1, 2 * (code + L[l]), k + L[l], L, syms)

\* The entries of a table as (length, bits, symbol).
TableCodes(map) ==
    {[len |-> CodeLen(c), bits |-> CodeValue(c), sym |-> map[c]] : c \in DOMAIN map}

\* Code(a) is a prefix of (or equal to) Code(b).
IsPrefix(a, b) ==
    CodeLen(a) <= CodeLen(b) /\ b \div Pow2(CodeLen(b) - CodeLen(a)) = a

PrefixFree(map) ==
    \A a \in DOMAIN map : \A b \in DOMAIN map : a # b => ~IsPrefix(a, b)

\* C6 (as claimed): for every count vector of a prefix code, with its symbol
\* list, read_huffman_table returns the table of the canonical assignment over
\* all sixteen lengths 1..16.
C6_CanonicalAllLengths ==
    (last.op = "read_huffman_table" /\ stream[3] \in HuffmanTableClasses
        /\ Kraft(DhtCounts))
    => /\ last.st = "ok"
       /\ Len(last.tables) = 1
       /\ TableCodes(last.tables[1].map) = CanonAt(1, 0, 0, DhtCounts, DhtSymbols)

\* C7 (as claimed): every table read_huffman_table builds holds exactly
\* sum(L_l) entries, took exactly sum(L_l) symbol bytes, and is prefix-free.
C7_TableInvariants ==
    (last.op = "read_huffman_table" /\ last.st = "ok")
    => /\ Len(last.tables) = 1
       /\ Cardinality(DOMAIN last.tables[1].map) = SumTo(DhtCounts, 16)
       /\ dec.pos = 19 + SumTo(DhtCounts, 16)
       /\ PrefixFree(last.tables[1].map)

\* --------------------------------------------------------------- markers

\* Marker::PREFIX
MarkerPrefix == 255

\* impl TryFrom<u8> for Marker: the marker of byte b, or "invalid" (Err).
MarkerOf(b) ==
    CASE b = 192 -> [name |-> "SOF0", n |-> 0]
      [] b = 194 -> [name |-> "SOF2", n |-> 0]
      [] b = 196 -> [name |-> "DHT", n |-> 0]
      [] b >= 208 /\ b <= 215 -> [name |-> "RST", n |-> b - 208]
      [] b = 216 -> [name |-> "SOI", n |-> 0]
      [] b = 217 -> [name |-> "EOI", n |-> 0]
      [] b = 218 -> [name |-> "SOS", n |-> 0]
      [] b = 219 -> [name |-> "DQT", n |-> 0]
      [] b = 221 -> [name |-> "DRI", n |-> 0]
      [] b >= 224 /\ b <= 239 -> [name |-> "APP", n |-> b - 224]
      [] b = 254 -> [name |-> "COM", n |-> 0]
      [] OTHER -> [name |-> "invalid", n |-> 0]

NoMarker == [name |-> "none", n |-> 0]

\* A scanner that skips fill bytes: a 0xFF after the prefix is taken as a new prefix.
RECURSIVE NextMarkerFill(_)
NextMarkerFill(pos) ==
    Let(DecReadByte(pos), LAMBDA a :
        IF a.st # "ok" THEN [st |-> a.st, pos |-> a.pos, marker |-> NoMarker]
        ELSE IF a.b # MarkerPrefix THEN NextMarkerFill(a.pos)
        ELSE IF a.pos < Len(stream) /\ stream[a.pos + 1] = MarkerPrefix
        THEN NextMarkerFill(a.pos)
        ELSE Let(DecReadByte(a.pos), LAMBDA b :
                IF b.st # "ok" THEN [st |-> b.st, pos |-> b.pos, marker |-> NoMarker]
                ELSE IF b.b = 0 THEN NextMarkerFill(b.pos)
                ELSE IF MarkerOf(b.b).name = "invalid"
                THEN [st |-> "err_invalid", pos |-> b.pos, marker |-> NoMarker]
                ELSE [st |-> "ok", pos |-> b.pos, marker |-> MarkerOf(b.b)]))

\* Decoder::next_marker from position pos: [st, pos, marker].
RECURSIVE NextMarker(_)
NextMarker(pos) ==
    Let(DecReadByte(pos), LAMBDA a :
        IF a.st # "ok" THEN [st |-> a.st, pos |-> a.pos, marker |-> NoMarker]
        ELSE IF a.b # MarkerPrefix THEN NextMarker(a.pos)
        ELSE Let(DecReadByte(a.pos), LAMBDA b :
                IF b.st # "ok" THEN [st |-> b.st, pos |-> b.pos, marker |-> NoMarker]
                ELSE IF b.b = 0 THEN NextMarker(b.pos)
                ELSE IF MarkerOf(b.b).name = "invalid"
                THEN [st |-> "err_invalid", pos |-> b.pos, marker |-> NoMarker]
                ELSE [st |-> "ok", pos |-> b.pos, marker |-> MarkerOf(b.b)]))

\* ------------------------------------------------------- markers: actions

\* The longest run of bytes put before the marker of a stream.
MaxPad == 2

\* What precedes a marker: data bytes (0x41), 0x00 and 0xFF in any order.
RECURSIVE Pads(_)
Pads(n) ==
    IF n = 0 THEN {<<>>}
    ELSE Pads(n - 1) \cup {Append(q, b) : q \in Pads(n - 1), b \in {0, 65, 255}}

\* pad, 0xFF, any second byte, and then nothing, SOI, or a stuffed pair and EOI.
MarkerStreams ==
    {q \o <<255, m>> \o t : q \in Pads(MaxPad), m \in 0..255,
                            t \in {<<>>, <<255, 216>>, <<255, 0, 255, 217>>}}

InitMarker ==
    /\ stream \in MarkerStreams
    /\ profile \in Profiles
    /\ chunk = 1
    /\ reader = NewBitReader
    /\ status = "run"
    /\ last = [op |-> "none", st |-> "ok", marker |-> NoMarker, from |-> 0]
    /\ nbits = 0
    /\ dec = [pos |-> 0]
    /\ mcu_reader = NoMcuReader
    /\ scan = <<>>

DoNextMarker ==
    /\ status = "run"
    /\ last.st # "err_eof"
    /\ \E r \in {NextMarker(dec.pos)} :
        /\ dec' = [dec EXCEPT !.pos = r.pos]
        /\ last' = [op |-> "next_marker", st |-> r.st, marker |-> r.marker,
                    from |-> dec.pos]
    /\ UNCHANGED <<stream, profile, chunk, reader, status, nbits, mcu_reader, scan>>

NextMarkerStep == DoNextMarker

SpecMarker == InitMarker /\ [][NextMarkerStep]_vars

\* ------------------------------------------- markers: reference and claims

\* The second bytes the marker table recognises:
\* C0, C2, C4, D0..D7, D8, D9, DA, DB, DD, E0..EF, FE.
RecognisedBytes == {192, 194, 196} \cup (208..215) \cup {216, 217, 218, 219, 221}
                       \cup (224..239) \cup {254}

\* The byte that identifies a marker.
MarkerByte(mk) ==
    CASE mk.name = "SOF0" -> 192 [] mk.name = "SOF2" -> 194 [] mk.name = "DHT" -> 196
      [] mk.name = "RST" -> 208 + mk.n [] mk.name = "SOI" -> 216
      [] mk.name = "EOI" -> 217 [] mk.name = "SOS" -> 218 [] mk.name = "DQT" -> 219
      [] mk.name = "DRI" -> 221 [] mk.name = "APP" -> 224 + mk.n
      [] mk.name = "COM" -> 254 [] OTHER -> 0

SetMin(S) == CHOOSE x \in S : \A y \in S : x <= y

\* Scanning from pos: skip to the first 0xFF; a following 0x00 is skipped with
\* it; any other following byte M ends the scan after M.  [eof, m, pos].
RECURSIVE RefScan(_)
RefScan(pos) ==
    LET ffs == {j \in (pos + 1)..Len(stream) : stream[j] = 255} IN
    IF ffs = {} \/ SetMin(ffs) = Len(stream)
    THEN [eof |-> TRUE, m |-> 0, pos |-> Len(stream)]
    ELSE IF stream[SetMin(ffs) + 1] = 0 THEN RefScan(SetMin(ffs) + 1)
    ELSE [eof |-> FALSE, m |-> stream[SetMin(ffs) + 1], pos |-> SetMin(ffs) + 1]

\* The stream starts with k >= 2 bytes 0xFF and then a recognised byte M.
PaddedMarker(k) ==
    /\ k >= 2 /\ Len(stream) > k
    /\ \A j \in 1..k : stream[j] = 255
    /\ stream[k + 1] \in RecognisedBytes

\* C8 (as claimed): on 0xFF 0xFF .. 0xFF M, with one or more extra 0xFF before a
\* recognised M, the first next_marker returns the marker of M.
C8_PaddingTolerated ==
    \A k \in 2..(MaxPad + 1) :
        (last.op = "next_marker" /\ last.from = 0 /\ PaddedMarker(k))
        => (last.st = "ok" /\ MarkerByte(last.marker) = stream[k + 1])

\* C9: every next_marker skips the bytes that are not 0xFF and the pairs
\* 0xFF 0x00, stops right after the first 0xFF M with M # 0, and returns the
\* marker of M when M is in the table and an error otherwise (also at the end
\* of the stream); a call starts where the previous one stopped.
C9_MarkerScan ==
    last.op = "next_marker" =>
        LET ref == RefScan(last.from) IN
        /\ dec.pos = ref.pos
        /\ IF ref.eof THEN last.st = "err_eof"
           ELSE IF ref.m \in RecognisedBytes
                THEN last.st = "ok" /\ MarkerByte(last.marker) = ref.m
                ELSE last.st = "err_invalid"

\* C9 witness: a second call, which skipped a stuffed pair, returns EOI after
\* the first skipped a data byte and returned APP1.
C9_Witness ==
    /\ last.op = "next_marker" /\ last.st = "ok" /\ last.marker.name = "EOI"
    /\ last.from = 3
    /\ stream = <<65, 255, 225, 255, 0, 255, 217>>

\* ------------------------------------------------------ Decoder: segments

\* Option<T>: None, Some(x).
None == << >>
Some(x) == <<x>>

\* Decoder::read_restart_interval from pos: [st, pos, interval].
ReadRestartInterval(pos) ==
    Let(DecReadU16(pos), LAMBDA h :
        IF h.st # "ok" THEN [st |-> h.st, pos |-> h.pos, interval |-> 0]
        ELSE IF h.v # 4 THEN [st |-> "err_invalid", pos |-> h.pos, interval |-> 0]
        ELSE Let(DecReadU16(h.pos), LAMBDA v :
                [st |-> v.st, pos |-> v.pos, interval |-> v.v]))

\* Decoder::skip_app from pos: [st, pos].  `len as usize - 2` underflows for
\* len < 2; at end of file fill_buf is empty, l is 0 and the loop never ends.
SkipApp(pos) ==
    Let(DecReadU16(pos), LAMBDA h :
        IF h.st # "ok" THEN [st |-> h.st, pos |-> h.pos]
        ELSE IF h.v < 2 /\ profile = "debug" THEN [st |-> "panic_overflow", pos |-> h.pos]
        ELSE IF h.v >= 2 /\ h.pos + h.v - 2 <= Len(stream)
        THEN [st |-> "ok", pos |-> h.pos + h.v - 2]
        ELSE [st |-> "hang", pos |-> Len(stream)])

\* The 64 values of a quantization table that starts after position pos.
QtValues(pos, precision) ==
    [k \in 1..64 |->
        IF precision = 0 THEN stream[pos + k]
        ELSE WrapI16(256 * stream[pos + 2 * k - 1] + stream[pos + 2 * k])]

\* One table of a DQT segment.  t = [st, pos, len, tables].
QtOneTable(t) ==
    Let(DecReadByte(t.pos), LAMBDA b :
        IF b.st # "ok" THEN [t EXCEPT !.st = b.st, !.pos = b.pos]
        ELSE IF b.b \div 16 > 1 THEN [t EXCEPT !.st = "err_invalid", !.pos = b.pos]
        ELSE Let(64 * ((b.b \div 16) + 1), LAMBDA n :
                IF b.pos + n > Len(stream)
                THEN [t EXCEPT !.st = "err_eof", !.pos = Len(stream)]
                ELSE Let(SubU16(t.len, 1 + n), LAMBDA d :
                        [st |-> d.st, pos |-> b.pos + n, len |-> d.v,
                         tables |-> Append(t.tables,
                                           [id |-> b.b % 16,
                                            values |-> QtValues(b.pos, b.b \div 16)])])))

\* `while len != 0` of read_quantization_table.
RECURSIVE QtTables(_)
QtTables(t) ==
    IF t.st # "ok" \/ t.len = 0 THEN t
    ELSE Let(QtOneTable(t), LAMBDA t2 : QtTables(t2))

\* Decoder::read_quantization_table from pos: [st, pos, tables].
ReadQuantizationTable(pos) ==
    Let(DecReadU16(pos), LAMBDA h :
        IF h.st # "ok" THEN [st |-> h.st, pos |-> h.pos, tables |-> <<>>]
        ELSE Let(SubU16(h.v, 2), LAMBDA d :
                IF d.st # "ok" THEN [st |-> d.st, pos |-> h.pos, tables |-> <<>>]
                ELSE Let(QtTables([st |-> "ok", pos |-> h.pos, len |-> d.v,
                                   tables |-> <<>>]),
                         LAMBDA t : [st |-> t.st, pos |-> t.pos, tables |-> t.tables])))

\* ComponentInfo::default.
ComponentInfoDefault ==
    [horizontal_sampling |-> 0, vertical_sampling |-> 0, quant_table_id |-> 0]

\* enum Component: Y = 1, Cb = 2, Cr = 3.
Components == {1, 2, 3}

\* `for _ in 0..number_of_component` of read_start_of_frame_0.  s = [st, pos, infos].
RECURSIVE SofComponents(_, _)
SofComponents(s, n) ==
    IF s.st # "ok" \/ n = 0 THEN s
    ELSE Let(DecReadByte(s.pos), LAMBDA c :
        IF c.st # "ok" THEN [s EXCEPT !.st = c.st, !.pos = c.pos]
        ELSE IF c.b \notin Components THEN [s EXCEPT !.st = "err_invalid", !.pos = c.pos]
        ELSE Let(DecReadByte(c.pos), LAMBDA sa :
            IF sa.st # "ok" THEN [s EXCEPT !.st = sa.st, !.pos = sa.pos]
            ELSE Let(DecReadByte(sa.pos), LAMBDA q :
                IF q.st # "ok" THEN [s EXCEPT !.st = q.st, !.pos = q.pos]
                ELSE Let([st |-> "ok", pos |-> q.pos,
                          infos |-> [s.infos EXCEPT ![c.b] =
                                        [horizontal_sampling |-> sa.b \div 16,
                                         vertical_sampling |-> sa.b % 16,
                                         quant_table_id |-> q.b]]],
                         LAMBDA s2 : SofComponents(s2, n - 1)))))

MaxOf(S) == CHOOSE x \in S : \A y \in S : y <= x

\* The StartOfFrameInfo built at the end of read_start_of_frame_0.
FrameInfo(precision, height, width, infos) ==
    [precision |-> precision, height |-> height, width |-> width,
     component_infos |-> infos,
     max_horizontal_sampling |-> MaxOf({infos[c].horizontal_sampling : c \in 1..3}),
     max_vertical_sampling |-> MaxOf({infos[c].vertical_sampling : c \in 1..3})]

NoFrame == FrameInfo(0, 0, 0, [c \in 1..3 |-> ComponentInfoDefault])

\* Decoder::read_start_of_frame_0 from pos: [st, pos, sof].
ReadStartOfFrame0(pos) ==
    Let(DecReadU16(pos), LAMBDA l :
        IF l.st # "ok" THEN [st |-> l.st, pos |-> l.pos, sof |-> NoFrame]
        ELSE Let(DecReadByte(l.pos), LAMBDA p :
            IF p.st # "ok" THEN [st |-> p.st, pos |-> p.pos, sof |-> NoFrame]
            ELSE Let(DecReadU16(p.pos), LAMBDA h :
                IF h.st # "ok" THEN [st |-> h.st, pos |-> h.pos, sof |-> NoFrame]
                ELSE Let(DecReadU16(h.pos), LAMBDA w :
                    IF w.st # "ok" THEN [st |-> w.st, pos |-> w.pos, sof |-> NoFrame]
                    ELSE Let(DecReadByte(w.pos), LAMBDA n :
                        IF n.st # "ok" THEN [st |-> n.st, pos |-> n.pos, sof |-> NoFrame]
                        ELSE Let(SofComponents(
                                    [st |-> "ok", pos |-> n.pos,
                                     infos |-> [c \in 1..3 |-> ComponentInfoDefault]],
                                    n.b),
                                 LAMBDA s :
                                    [st |-> s.st, pos |-> s.pos,
                                     sof |-> IF s.st = "ok"
                                             THEN FrameInfo(p.b, h.v, w.v, s.infos)
                                             ELSE NoFrame]))))))

\* `for _ in 0..component_number` of read_start_of_scan.  s = [st, pos, table_mapping].
RECURSIVE SosComponents(_, _)
SosComponents(s, n) ==
    IF s.st # "ok" \/ n = 0 THEN s
    ELSE Let(DecReadByte(s.pos), LAMBDA c :
        IF c.st # "ok" THEN [s EXCEPT !.st = c.st, !.pos = c.pos]
        ELSE IF c.b \notin Components THEN [s EXCEPT !.st = "err_invalid", !.pos = c.pos]
        ELSE Let(DecReadByte(c.pos), LAMBDA id :
            IF id.st # "ok" THEN [s EXCEPT !.st = id.st, !.pos = id.pos]
            ELSE IF id.b \div 16 > 1 \/ id.b % 16 > 1
            THEN [s EXCEPT !.st = "err_invalid", !.pos = id.pos]
            ELSE Let([st |-> "ok", pos |-> id.pos,
                      table_mapping |-> [s.table_mapping EXCEPT ![c.b] =
                                            [dc |-> id.b \div 16, ac |-> 16 + (id.b % 16)]]],
                     LAMBDA s2 : SosComponents(s2, n - 1))))

\* `assert_eq!(self.read_byte()?, want)`.  s = [st, pos, table_mapping].
SosExpectByte(s, want) ==
    IF s.st # "ok" THEN s
    ELSE Let(DecReadByte(s.pos), LAMBDA b :
            IF b.st # "ok" THEN [s EXCEPT !.st = b.st, !.pos = b.pos]
            ELSE IF b.b # want THEN [s EXCEPT !.st = "panic_assert", !.pos = b.pos]
            ELSE [s EXCEPT !.pos = b.pos])

\* Decoder::read_start_of_scan from pos: [st, pos, table_mapping].
ReadStartOfScan(pos) ==
    Let([st |-> "ok", pos |-> pos, table_mapping |-> [c \in 1..3 |-> [dc |-> 0, ac |-> 16]]],
        LAMBDA s0 :
        Let(DecReadU16(pos), LAMBDA l :
            IF l.st # "ok" THEN [s0 EXCEPT !.st = l.st, !.pos = l.pos]
            ELSE Let(DecReadByte(l.pos), LAMBDA n :
                IF n.st # "ok" THEN [s0 EXCEPT !.st = n.st, !.pos = n.pos]
                ELSE IF n.b # 3 THEN [s0 EXCEPT !.st = "panic_assert", !.pos = n.pos]
                ELSE Let(SosComponents([s0 EXCEPT !.pos = n.pos], 3), LAMBDA s1 :
                     Let(SosExpectByte(s1, 0), LAMBDA s2 :
                     Let(SosExpectByte(s2, 63), LAMBDA s3 : SosExpectByte(s3, 0)))))))

\* --------------------------------------------------------- McuReader::new

\* StartOfFrameInfo::mcu_width_num / mcu_height_num in u16 arithmetic:
\* (extent - 1) / (8 * sampling) + 1.  [st, v].
McuSizeNum(extent, sampling) ==
    IF extent = 0 /\ profile = "debug" THEN [st |-> "panic_overflow", v |-> 0]
    ELSE IF sampling = 0 THEN [st |-> "panic_div0", v |-> 0]
    ELSE [st |-> "ok", v |-> (((extent - 1) % 65536) \div (8 * sampling)) + 1]

\* `huffman.iter().find(|h| h.class == class)`: the map of the first such table.
FindTable(huffman, class) ==
    Let({k \in 1..Len(huffman) : huffman[k].class = class}, LAMBDA idx :
        IF idx = {} THEN None ELSE Some(huffman[SetMin(idx)].map))

\* McuReader::new: [st, mcu_reader].
McuReaderNew(sof, table_mapping, qts, huffman, reset_interval) ==
    Let([c \in 1..3 |-> <<FindTable(huffman, table_mapping[c].dc),
                          FindTable(huffman, table_mapping[c].ac)>>],
        LAMBDA pairs :
        IF \E c \in 1..3 : pairs[c][1] = None \/ pairs[c][2] = None
        THEN [st |-> "err_invalid", mcu_reader |-> NoMcuReader]
        ELSE Let(McuSizeNum(sof.height, sof.max_vertical_sampling), LAMBDA hn :
            IF hn.st # "ok" THEN [st |-> hn.st, mcu_reader |-> NoMcuReader]
            ELSE Let(McuSizeNum(sof.width, sof.max_horizontal_sampling), LAMBDA wn :
                IF wn.st # "ok" THEN [st |-> wn.st, mcu_reader |-> NoMcuReader]
                ELSE [st |-> "ok",
                      mcu_reader |->
                        [sof |-> sof, qts |-> qts,
                         huffman_tables |->
                            [c \in 1..3 |-> <<pairs[c][1][1], pairs[c][2][1]>>],
                         last_dc |-> <<0, 0, 0>>, i |-> 0, total |-> hn.v * wn.v,
                         reset_interval |-> reset_interval]])))

\* ----------------------------------------------------------- Decoder::read

\* The locals of Decoder::read at its start; pc is "loop", "sos" or "scan".
ReadLocals ==
    [pos |-> 0, pc |-> "loop", quantization_tables |-> <<>>, huffman_tables |-> <<>>,
     sof |-> None, restart_interval |-> None]

\* One iteration of `loop { match self.next_marker()? { .. } }`: [st, d].
ReadSegment(d) ==
    Let(NextMarker(d.pos), LAMBDA m :
    Let([d EXCEPT !.pos = m.pos], LAMBDA d1 :
        IF m.st # "ok" THEN [st |-> m.st, d |-> d1]
        ELSE CASE m.marker.name = "EOI" -> [st |-> "err_invalid", d |-> d1]
          [] m.marker.name = "DQT" ->
                Let(ReadQuantizationTable(m.pos), LAMBDA r :
                    [st |-> r.st,
                     d |-> [d1 EXCEPT !.pos = r.pos,
                                      !.quantization_tables =
                                          IF r.st = "ok" THEN @ \o r.tables ELSE @]])
          [] m.marker.name = "DHT" ->
                Let(ReadHuffmanTable(m.pos), LAMBDA r :
                    [st |-> r.st,
                     d |-> [d1 EXCEPT !.pos = r.pos,
                                      !.huffman_tables =
                                          IF r.st = "ok" THEN @ \o r.tables ELSE @]])
          [] m.marker.name = "SOF0" ->
                Let(ReadStartOfFrame0(m.pos), LAMBDA r :
                    [st |-> r.st,
                     d |-> [d1 EXCEPT !.pos = r.pos,
                                      !.sof = IF r.st = "ok" THEN Some(r.sof) ELSE @]])
          [] m.marker.name = "DRI" ->
                Let(ReadRestartInterval(m.pos), LAMBDA r :
                    [st |-> r.st,
                     d |-> [d1 EXCEPT !.pos = r.pos,
                                      !.restart_interval =
                                          IF r.st = "ok" THEN Some(r.interval) ELSE @]])
          [] m.marker.name = "APP" ->
                Let(SkipApp(m.pos), LAMBDA r :
                    [st |-> r.st, d |-> [d1 EXCEPT !.pos = r.pos]])
          [] m.marker.name = "SOS" -> [st |-> "ok", d |-> [d1 EXCEPT !.pc = "sos"]]
          [] OTHER -> [st |-> "ok", d |-> d1]))

\* Decoder::read after the loop: the table-id asserts, read_start_of_scan,
\* `sof.take().expect(..)` and McuReader::new.  [st, d, mcu_reader].
ReadScanSetup(d) ==
    IF \E i \in 1..Len(d.quantization_tables) : d.quantization_tables[i].id # i - 1
    THEN [st |-> "panic_assert", d |-> d, mcu_reader |-> NoMcuReader]
    ELSE Let(ReadStartOfScan(d.pos), LAMBDA s :
        Let([d EXCEPT !.pos = s.pos], LAMBDA d1 :
            IF s.st # "ok" THEN [st |-> s.st, d |-> d1, mcu_reader |-> NoMcuReader]
            ELSE IF d.sof = None
            THEN [st |-> "panic_expect", d |-> d1, mcu_reader |-> NoMcuReader]
            ELSE Let(McuReaderNew(d.sof[1], s.table_mapping, d.quantization_tables,
                                  d.huffman_tables, d.restart_interval),
                     LAMBDA n :
                        [st |-> n.st,
                         d |-> IF n.st = "ok" THEN [d1 EXCEPT !.pc = "scan"] ELSE d1,
                         mcu_reader |-> n.mcu_reader])))

\* No call made yet.
NoRead == [op |-> "none", st |-> "ok", ret |-> "none", blocks |-> <<>>, calls |-> 0]

DoReadSegment ==
    /\ status = "run"
    /\ dec.pc = "loop"
    /\ \E r \in {ReadSegment(dec)} :
        /\ dec' = r.d
        /\ status' = IF r.st = "ok" THEN "run" ELSE r.st
        /\ last' = [NoRead EXCEPT !.op = "read", !.st = r.st]
    /\ UNCHANGED <<stream, profile, chunk, reader, nbits, mcu_reader, scan>>

\* The BufReader moves into the BitReader with what it has buffered: up to
\* chunk - 1 bytes beyond the position.
DoReadScanSetup ==
    /\ status = "run"
    /\ dec.pc = "sos"
    /\ \E r \in {ReadScanSetup(dec)}, ahead \in {0, chunk - 1} :
        /\ dec' = r.d
        /\ status' = IF r.st = "ok" THEN "run" ELSE r.st
        /\ last' = [NoRead EXCEPT !.op = "read", !.st = r.st]
        /\ mcu_reader' = r.mcu_reader
        /\ reader' = IF r.st = "ok"
                     THEN [NewBitReader EXCEPT !.pos = r.d.pos,
                               !.bend = Min(r.d.pos + ahead, Len(stream))]
                     ELSE reader
    /\ UNCHANGED <<stream, profile, chunk, nbits, scan>>

\* --------------------------------------------------- entropy-coded data

\* HuffmanTree::get on the 16-bit window x: the length and the symbol of the
\* code that is a prefix of x, length 0 when none is.
TreeGet(map, x) ==
    Let({c \in DOMAIN map : CodeLen(c) >= 1
                            /\ x \div Pow2(16 - CodeLen(c)) = CodeValue(c)},
        LAMBDA hit :
            IF hit = {} THEN [len |-> 0, val |-> 0]
            ELSE Let(SetMin(hit), LAMBDA c : [len |-> CodeLen(c), val |-> map[c]]))

\* A peek_16 whose fast path takes the buffered bytes without looking for 0xFF.
Peek16Unchecked(r) ==
    IF r.bend - r.pos >= 2 /\ r.count < 16
    THEN Let(IF r.count < 8
             THEN [r EXCEPT !.buf = (r.buf % Pow2(16)) * Pow2(16)
                                        + 256 * stream[r.pos + 1] + stream[r.pos + 2],
                            !.count = @ + 16, !.pos = @ + 2]
             ELSE ShiftIn([r EXCEPT !.pos = @ + 1], stream[r.pos + 1]),
             LAMBDA r2 :
                [st |-> "ok", r |-> r2,
                 v |-> (r2.buf \div Pow2(r2.count - 16)) % 65536])
    ELSE Peek(r, 16)

\* BitReader::peek_16: with two buffered bytes, neither 0xFF, and count < 16
\* the bytes are taken from the buffer; else peek(16).  [st, r, v].
Peek16(r) ==
    IF r.bend - r.pos >= 2 /\ stream[r.pos + 1] # 255 /\ stream[r.pos + 2] # 255
       /\ r.count < 16
    THEN Let(IF r.count < 8
             THEN [r EXCEPT !.buf = (r.buf % Pow2(16)) * Pow2(16)
                                        + 256 * stream[r.pos + 1] + stream[r.pos + 2],
                            !.count = @ + 16, !.pos = @ + 2]
             ELSE ShiftIn([r EXCEPT !.pos = @ + 1], stream[r.pos + 1]),
             LAMBDA r2 :
                [st |-> "ok", r |-> r2,
                 v |-> (r2.buf \div Pow2(r2.count - 16)) % 65536])
    ELSE Peek(r, 16)

\* BitReader::read_decode_haffman: [st, r, val].
ReadDecodeHaffman(r, map) ==
    Let(Peek16(r), LAMBDA p :
        IF p.st # "ok" THEN [st |-> p.st, r |-> p.r, val |-> 0]
        ELSE Let(TreeGet(map, p.v), LAMBDA g :
                IF g.len = 0 /\ profile = "debug"          \* debug_assert_ne!(len, 0)
                THEN [st |-> "panic_assert", r |-> p.r, val |-> 0]
                ELSE [st |-> "ok", r |-> Consume(p.r, g.len), val |-> g.val]))

\* BufReader::read_exact of two bytes: [st, r, b0].
ReadExact2(r) ==
    Let(ReadByte(r), LAMBDA a :
        IF a.st # "ok" THEN [st |-> "err_eof", r |-> a.r, b0 |-> 0]
        ELSE Let(ReadByte(a.r), LAMBDA b :
                IF b.st # "ok" THEN [st |-> "err_eof", r |-> b.r, b0 |-> a.b]
                ELSE [st |-> "ok", r |-> b.r, b0 |-> a.b]))

\* BitReader::reset: [st, r].
Reset(r) ==
    IF r.count < 8
    THEN Let(ReadExact2(r), LAMBDA e :
            IF e.st # "ok" THEN [st |-> e.st, r |-> e.r]
            ELSE IF e.b0 # 255 THEN [st |-> "panic_assert", r |-> e.r]
            ELSE [st |-> "ok", r |-> [e.r EXCEPT !.buf = 0, !.count = 0]])
    ELSE IF r.count # 16 /\ profile = "debug"       \* debug_assert_eq!(self.count, 16)
    THEN [st |-> "panic_assert", r |-> r]
    ELSE [st |-> "ok", r |-> [r EXCEPT !.buf = 0, !.count = 0]]

\* ------------------------------------------------------------ McuReader

\* McuReader::read_dc for component id; the DC symbols of the tables are
\* categories of at most 15 bits.  s = [st, r, last_dc, blocks]; gives [st, r, last_dc, v].
ReadDc(s, m, id) ==
    Let(ReadDecodeHaffman(s.r, m.huffman_tables[id][1]), LAMBDA h :
        IF h.st # "ok" THEN [st |-> h.st, r |-> h.r, last_dc |-> s.last_dc, v |-> 0]
        ELSE Let(ReadValue(h.r, h.val), LAMBDA v :
            IF v.st # "ok" THEN [st |-> v.st, r |-> v.r, last_dc |-> s.last_dc, v |-> 0]
            ELSE IF ~FitsI16(s.last_dc[id] + v.v) /\ profile = "debug"
            THEN [st |-> "panic_overflow", r |-> v.r, last_dc |-> s.last_dc, v |-> 0]
            ELSE Let(WrapI16(s.last_dc[id] + v.v), LAMBDA dc :
                    [st |-> "ok", r |-> v.r,
                     last_dc |-> [s.last_dc EXCEPT ![id] = dc], v |-> dc])))

\* `while i < 64` of read_block; x[k + 1] is the source's x[k].  a = [st, r, x, i].
RECURSIVE ReadAc(_, _)
ReadAc(a, ac) ==
    IF a.st # "ok" \/ a.i >= 64 THEN a
    ELSE Let(ReadDecodeHaffman(a.r, ac), LAMBDA h :
        IF h.st # "ok" THEN [a EXCEPT !.st = h.st, !.r = h.r]
        ELSE IF h.val = 0 THEN [a EXCEPT !.r = h.r]
        ELSE IF h.val = 240
        THEN Let([a EXCEPT !.r = h.r, !.i = @ + 16], LAMBDA a2 : ReadAc(a2, ac))
        ELSE Let(ReadValue(h.r, h.val % 16), LAMBDA v :
            IF v.st # "ok" THEN [a EXCEPT !.st = v.st, !.r = v.r]
            ELSE IF a.i + (h.val \div 16) >= 64
            THEN [a EXCEPT !.st = "panic_index", !.r = v.r]
            ELSE Let([st |-> "ok", r |-> v.r,
                      x |-> [a.x EXCEPT ![a.i + (h.val \div 16) + 1] = v.v],
                      i |-> a.i + (h.val \div 16) + 1],
                     LAMBDA a2 : ReadAc(a2, ac))))

\* McuReader::read_block for component id, pushed to the blocks of the MCU.
\* s = [st, r, last_dc, blocks].
ReadBlock(s, m, id) ==
    Let(ReadDc(s, m, id), LAMBDA d :
        IF d.st # "ok" THEN [s EXCEPT !.st = d.st, !.r = d.r]
        ELSE Let(ReadAc([st |-> "ok", r |-> d.r,
                         x |-> [k \in 1..64 |-> IF k = 1 THEN d.v ELSE 0], i |-> 1],
                        m.huffman_tables[id][2]),
                 LAMBDA a :
                    [st |-> a.st, r |-> a.r, last_dc |-> d.last_dc,
                     blocks |-> IF a.st = "ok" THEN Append(s.blocks, a.x) ELSE s.blocks]))

\* The n blocks of component id.
RECURSIVE ReadBlocks(_, _, _, _)
ReadBlocks(s, m, id, n) ==
    IF s.st # "ok" \/ n = 0 THEN s
    ELSE Let(ReadBlock(s, m, id), LAMBDA s2 : ReadBlocks(s2, m, id, n - 1))

\* The loops over the components of McuReader::next.
ReadMcu(s, m) ==
    Let(m.sof.component_infos, LAMBDA ci :
    Let(ReadBlocks(s, m, 1, ci[1].vertical_sampling * ci[1].horizontal_sampling),
        LAMBDA s1 :
    Let(ReadBlocks(s1, m, 2, ci[2].vertical_sampling * ci[2].horizontal_sampling),
        LAMBDA s2 :
        ReadBlocks(s2, m, 3, ci[3].vertical_sampling * ci[3].horizontal_sampling))))

\* The component of block b of an MCU: the blocks come component by component.
BlockComponent(ci, b) ==
    IF b <= ci[1].horizontal_sampling * ci[1].vertical_sampling THEN 1
    ELSE IF b <= ci[1].horizontal_sampling * ci[1].vertical_sampling
                    + ci[2].horizontal_sampling * ci[2].vertical_sampling THEN 2
    ELSE 3

\* What stops Mcu::itrans and Mcu::to_rgb: a quant_table_id with no table, an
\* i16 overflow of coefficient * quantizer, chroma that is not 1x1, an
\* upsampling offset beyond 2x2.  The cell they compute is a function of the
\* blocks and is not part of the state.
TransStatus(m, blocks) ==
    Let(m.sof.component_infos, LAMBDA ci :
        IF \E c \in 1..3 : ci[c].quant_table_id >= Len(m.qts) THEN "panic_index"
        ELSE IF profile = "debug"
                /\ \E b \in 1..Len(blocks), k \in 1..64 :
                        ~FitsI16(blocks[b][k]
                            * m.qts[ci[BlockComponent(ci, b)].quant_table_id + 1].values[k])
        THEN "panic_overflow"
        ELSE IF \E c \in 2..3 : ci[c].horizontal_sampling * ci[c].vertical_sampling # 1
        THEN "panic_assert"
        ELSE IF m.sof.max_vertical_sampling = 2 /\ m.sof.max_horizontal_sampling > 2
        THEN "panic_unreachable"
        ELSE "ok")

\* The restart step without the clearing of the predictors.
McuRestartKeepDc(m, r) ==
    IF m.reset_interval = None THEN [st |-> "ok", m |-> m, r |-> r]
    ELSE IF m.reset_interval[1] = 0 THEN [st |-> "panic_div0", m |-> m, r |-> r]
    ELSE IF m.i % m.reset_interval[1] # 0 THEN [st |-> "ok", m |-> m, r |-> r]
    ELSE Let(Reset(r), LAMBDA z : [st |-> z.st, m |-> m, r |-> z.r])

\* `if matches!(self.reset_interval, Some(r) if self.i % r as usize == 0)
\*  { self.reader.reset()?; self.last_dc = [0; 3]; }`: [st, m, r].
McuRestart(m, r) ==
    IF m.reset_interval = None THEN [st |-> "ok", m |-> m, r |-> r]
    ELSE IF m.reset_interval[1] = 0 THEN [st |-> "panic_div0", m |-> m, r |-> r]
    ELSE IF m.i % m.reset_interval[1] # 0 THEN [st |-> "ok", m |-> m, r |-> r]
    ELSE Let(Reset(r), LAMBDA z :
            [st |-> z.st,
             m |-> IF z.st = "ok" THEN [m EXCEPT !.last_dc = <<0, 0, 0>>] ELSE m,
             r |-> z.r])

\* McuReader::next: [st, ret, m, r, blocks]; ret is "some", "none" or "stop".
McuNext(m, r) ==
    IF m.i = m.total
    THEN [st |-> "ok", ret |-> "none", m |-> m, r |-> r, blocks |-> <<>>]
    ELSE Let([m EXCEPT !.i = @ + 1], LAMBDA m1 :
         Let(ReadMcu([st |-> "ok", r |-> r, last_dc |-> m.last_dc, blocks |-> <<>>], m1),
             LAMBDA s :
             Let([m1 EXCEPT !.last_dc = s.last_dc], LAMBDA m2 :
                IF s.st # "ok"
                THEN [st |-> s.st, ret |-> "stop", m |-> m2, r |-> s.r, blocks |-> s.blocks]
                ELSE IF TransStatus(m2, s.blocks) # "ok"
                THEN [st |-> TransStatus(m2, s.blocks), ret |-> "stop", m |-> m2,
                      r |-> s.r, blocks |-> s.blocks]
                ELSE Let(McuRestart(m2, s.r), LAMBDA z :
                        [st |-> z.st, ret |-> IF z.st = "ok" THEN "some" ELSE "stop",
                         m |-> z.m, r |-> z.r, blocks |-> s.blocks]))))

\* ------------------------------------------------------ files: segments

\* u16 big-endian.
Be16(v) == <<v \div 256, v % 256>>

\* The 4:4:4 and 4:2:0 samplings of Y as a byte; Cb and Cr are 1x1.
SegSOF(m, w, h, ysampling) ==
    <<255, m, 0, 17, 8>> \o Be16(h) \o Be16(w)
        \o <<3, 1, ysampling, 0, 2, 17, 0, 3, 17, 0>>

SegDQT == <<255, 219, 0, 67, 0>> \o [k \in 1..64 |-> 1]

\* DC symbols: categories 0, 1, 2, 8, 3 at the codes 0, 10, 110, 1110, 11110;
\* AC symbols: EOB, 0/1, ZRL, 1/1, 15/1 at the codes 0, 10, 110, 1110, 11110.
SegDHT ==
    <<255, 196, 0, 46>>
        \o <<0>> \o <<1, 1, 1, 1, 1, 0, 0, 0, 0, 0, 0, 0, 0, 0, 0, 0>> \o <<0, 1, 2, 8, 3>>
        \o <<16>> \o <<1, 1, 1, 1, 1, 0, 0, 0, 0, 0, 0, 0, 0, 0, 0, 0>>
        \o <<0, 1, 240, 17, 241>>

SegDRI(r) == <<255, 221, 0, 4>> \o Be16(r)

SegAPP0 == <<255, 224, 0, 4, 74, 70>>

SegCOM == <<255, 254, 0, 3, 65>>

SegSOS == <<255, 218, 0, 12, 3, 1, 0, 2, 0, 3, 0, 0, 63, 0>>

\* A scan header of one component.
SegSOS1 == <<255, 218, 0, 8, 1, 1, 0, 0, 63, 0>>

SegSOI == <<255, 216>>

SegEOI == <<255, 217>>

\* ------------------------------------------------- Decoder::read: actions

\* The most segments between SOI and the end of a stream.
MaxSegs == 3

SegMenu ==
    {SegSOF(192, 8, 8, 17), SegSOF(194, 8, 8, 17), SegDQT, SegDHT, SegDRI(0),
     SegAPP0, SegCOM, SegSOS, SegSOS1, SegEOI}

RECURSIVE SegStreams(_)
SegStreams(n) ==
    IF n = 0 THEN {SegSOI}
    ELSE Let(SegStreams(n - 1), LAMBDA T :
            T \cup {t \o s : t \in T, s \in SegMenu})

InitRead ==
    /\ stream \in SegStreams(MaxSegs)
    /\ profile \in Profiles
    /\ chunk = 1
    /\ reader = NewBitReader
    /\ status = "run"
    /\ last = NoRead
    /\ nbits = 0
    /\ dec = ReadLocals
    /\ mcu_reader = NoMcuReader
    /\ scan = <<>>

NextRead == DoReadSegment \/ DoReadScanSetup

SpecRead == InitRead /\ [][NextRead]_vars

\* ------------------------------------------------ Decoder::read: claims

\* C10 (as claimed): once SOS is reached with no SOF0 segment read before it,
\* Decoder::read ends with an error result: it makes no McuReader and it
\* neither panics nor hangs.
C10_ScanRequiresFrame ==
    (dec.pc # "loop" /\ dec.sof = None) =>
        /\ dec.pc = "sos"
        /\ mcu_reader = NoMcuReader
        /\ status \in {"run", "err_eof", "err_invalid"}

\* ------------------------------------------- files: entropy-coded data

\* The n bits of v, most significant first.
BitsOf(v, n) == [k \in 1..n |-> (v \div Pow2(n - k)) % 2]

\* The number of bits of magnitude a.
RECURSIVE Category(_)
Category(a) == IF a = 0 THEN 0 ELSE 1 + Category(a \div 2)

Abs(d) == IF d < 0 THEN -d ELSE d

\* The additional bits of a value: d itself, or d + 2^s - 1 when negative.
ValueBits(d) ==
    BitsOf(IF d >= 0 THEN d ELSE d + Pow2(Category(Abs(d))) - 1, Category(Abs(d)))

\* The codes of SegDHT.
DcCodeBits(s) ==
    CASE s = 0 -> <<0>> [] s = 1 -> <<1, 0>> [] s = 2 -> <<1, 1, 0>>
      [] s = 8 -> <<1, 1, 1, 0>> [] s = 3 -> <<1, 1, 1, 1, 0>>

AcCodeBits(s) ==
    CASE s = 0 -> <<0>> [] s = 1 -> <<1, 0>> [] s = 240 -> <<1, 1, 0>>
      [] s = 17 -> <<1, 1, 1, 0>> [] s = 241 -> <<1, 1, 1, 1, 0>>

\* The AC part of a block: <<run, value>> pairs (<<15, 0>> is ZRL), then EOB.
RECURSIVE AcBits(_)
AcBits(ac) ==
    IF ac = <<>> THEN AcCodeBits(0)
    ELSE AcCodeBits(16 * ac[1][1] + Category(Abs(ac[1][2])))
            \o ValueBits(ac[1][2]) \o AcBits(Tail(ac))

\* A block: its DC difference and its AC part.
BlockBits(b) == DcCodeBits(Category(Abs(b.dc))) \o ValueBits(b.dc) \o AcBits(b.ac)

DcBlock(d) == [dc |-> d, ac |-> <<>>]

\* The MCUs of the scans: a luma block (repeated when Y is 2x2), Cb, Cr.
McuPatterns ==
    {[y |-> [dc |-> 3, ac |-> << <<0, 1>> >>], cb |-> DcBlock(0), cr |-> DcBlock(1)],
     [y |-> DcBlock(-1), cb |-> DcBlock(255), cr |-> DcBlock(0)],
     [y |-> [dc |-> 5, ac |-> << <<15, 0>>, <<1, -1>> >>], cb |-> DcBlock(-2),
      cr |-> DcBlock(0)],
     [y |-> DcBlock(0), cb |-> DcBlock(0), cr |-> DcBlock(0)]}

RECURSIVE Repeat(_, _)
Repeat(s, n) == IF n = 0 THEN <<>> ELSE s \o Repeat(s, n - 1)

McuBits(p, ny) == Repeat(BlockBits(p.y), ny) \o BlockBits(p.cb) \o BlockBits(p.cr)

\* The bits of the MCUs a..b of a scan.
RECURSIVE McusBits(_, _, _, _)
McusBits(mcus, ny, a, b) ==
    IF a > b THEN <<>> ELSE McuBits(mcus[a], ny) \o McusBits(mcus, ny, a + 1, b)

RECURSIVE BitsNum(_)
BitsNum(bits) == IF bits = <<>> THEN 0 ELSE 2 * BitsNum(SubSeq(bits, 1, Len(bits) - 1))
                                             + bits[Len(bits)]

\* Bits to bytes: the last byte is filled with 1 bits, 0xFF is followed by 0x00.
RECURSIVE PackBytes(_)
PackBytes(bits) ==
    IF bits = <<>> THEN <<>>
    ELSE IF Len(bits) < 8 THEN PackBytes(bits \o <<1>>)
    ELSE Let(BitsNum(SubSeq(bits, 1, 8)), LAMBDA b :
            (IF b = 255 THEN <<255, 0>> ELSE <<b>>)
                \o PackBytes(SubSeq(bits, 9, Len(bits))))

\* The intervals from MCU a on: r MCUs each (all of them when r = 0), RSTn
\* between two intervals, n counting from 0 modulo 8.
RECURSIVE IntervalBytes(_, _, _, _, _)
IntervalBytes(mcus, ny, r, a, n) ==
    IF r = 0 \/ a + r > Len(mcus)
    THEN PackBytes(McusBits(mcus, ny, a, Len(mcus)))
    ELSE PackBytes(McusBits(mcus, ny, a, a + r - 1))
            \o <<255, 208 + n>> \o IntervalBytes(mcus, ny, r, a + r, (n + 1) % 8)

Ceil(a, b) == (a + b - 1) \div b

\* The number of MCUs of a frame of w x h pixels whose Y sampling byte is ys.
FrameMcus(f) == Ceil(f.w, 8 * (f.ys \div 16)) * Ceil(f.h, 8 * (f.ys % 16))

\* A whole file: headers, the scan of the given MCUs, EOI.  interval is None
\* (no DRI segment) or Some(r).
FileBytes(f, mcus, interval) ==
    SegSOI \o SegAPP0 \o SegDQT \o SegSOF(192, f.w, f.h, f.ys) \o SegDHT
        \o (IF interval = None THEN <<>> ELSE SegDRI(interval[1])) \o SegSOS
        \o IntervalBytes(mcus, (f.ys \div 16) * (f.ys % 16),
                         IF interval = None THEN 0 ELSE interval[1], 1, 0)
        \o SegEOI

\* ------------------------------------------------------ decoding: actions

\* The most MCUs of a frame.
MaxMcus == 3

\* The most calls of next after the one that returns the last MCU.
MaxExtra == 2

Frames ==
    {f \in {[w |-> 8, h |-> 8, ys |-> 17], [w |-> 1, h |-> 1, ys |-> 17],
            [w |-> 16, h |-> 16, ys |-> 34], [w |-> 9, h |-> 8, ys |-> 17],
            [w |-> 17, h |-> 16, ys |-> 34], [w |-> 17, h |-> 8, ys |-> 17],
            [w |-> 8, h |-> 17, ys |-> 17], [w |-> 9, h |-> 9, ys |-> 17]} :
        FrameMcus(f) <= MaxMcus}

\* None, and the intervals 0, 1 and 2.
Intervals == {None, Some(0), Some(1), Some(2)}

InitDecode ==
    /\ \E f \in Frames, interval \in Intervals :
       \E mcus \in [1..FrameMcus(f) -> McuPatterns] :
            /\ scan = [frame |-> f, mcus |-> mcus, interval |-> interval]
            /\ stream = FileBytes(f, mcus, interval)
    /\ profile \in Profiles
    /\ chunk \in ChunkSizes
    /\ reader = NewBitReader
    /\ status = "run"
    /\ last = NoRead
    /\ nbits = 0
    /\ dec = ReadLocals
    /\ mcu_reader = NoMcuReader

DoMcuNext ==
    /\ status = "run"
    /\ dec.pc = "scan"
    /\ last.calls < mcu_reader.total + MaxExtra
    /\ \E z \in {McuNext(mcu_reader, reader)} :
        /\ mcu_reader' = z.m
        /\ reader' = z.r
        /\ status' = IF z.st = "ok" THEN "run" ELSE z.st
        /\ last' = [op |-> "next", st |-> z.st, ret |-> z.ret, blocks |-> z.blocks,
                    calls |-> last.calls + 1]
    /\ UNCHANGED <<stream, profile, chunk, nbits, dec, scan>>

NextDecode == DoReadSegment \/ DoReadScanSetup \/ DoMcuNext

SpecDecode == InitDecode /\ [][NextDecode]_vars

\* ------------------------------------------- decoding: reference and claims

\* The restart interval of the scan, 0 when there is none.
ScanInterval == IF scan.interval = None THEN 0 ELSE scan.interval[1]

\* The blocks of each component in an MCU of the frame of the scan.
ScanBlocks == <<(scan.frame.ys \div 16) * (scan.frame.ys % 16), 1, 1>>

\* The DC difference that pattern p carries for component c.
PatternDc(p, c) == CASE c = 1 -> p.y.dc [] c = 2 -> p.cb.dc [] c = 3 -> p.cr.dc

\* The sum of the DC differences of component c over the MCUs a..b.
RECURSIVE SumDc(_, _, _)
SumDc(c, a, b) ==
    IF a > b THEN 0
    ELSE ScanBlocks[c] * PatternDc(scan.mcus[a], c) + SumDc(c, a + 1, b)

\* The DC coefficient of the j-th block of component c in MCU number i, with
\* restart interval r > 0: the differences since the last restart boundary.
ExpectedDc(r, i, c, j) ==
    SumDc(c, ((i - 1) \div r) * r + 1, i - 1) + j * PatternDc(scan.mcus[i], c)

\* C1 (as claimed): on a well-formed scan the first mcu_width_num *
\* mcu_height_num calls of next return Some, and every later call returns
\* None, reads no byte and leaves the reader as it was.
C1_Step ==
    (dec.pc = "scan" /\ status = "run" /\ last'.op = "next"
        /\ last'.calls = last.calls + 1)
    => IF last.calls < FrameMcus(scan.frame)
       THEN last'.ret = "some"
       ELSE last'.ret = "none" /\ reader' = reader /\ mcu_reader' = mcu_reader

C1_McuCount == [][C1_Step]_vars

\* C2: with a restart interval R > 0, when next has returned MCU number i,
\* the DC coefficient of each of its blocks is the sum of the DC differences
\* of its component since the last restart boundary before it, and if R
\* divides i the three predictors are 0.
C2_RestartPredictors ==
    (dec.pc = "scan" /\ last.op = "next" /\ last.ret = "some" /\ ScanInterval > 0) =>
        /\ mcu_reader.i % ScanInterval = 0 => mcu_reader.last_dc = <<0, 0, 0>>
        /\ Len(last.blocks) = ScanBlocks[1] + 2
        /\ \A b \in 1..Len(last.blocks) :
              last.blocks[b][1] =
                 IF b <= ScanBlocks[1]
                 THEN ExpectedDc(ScanInterval, mcu_reader.i, 1, b)
                 ELSE ExpectedDc(ScanInterval, mcu_reader.i, 1 + b - ScanBlocks[1], 1)

\* C2 witness: interval 2, luma differences +3, -1, +5: the third MCU is
\* returned with the DC coefficient 5.
C2_Witness ==
    /\ dec.pc = "scan" /\ last.op = "next" /\ last.ret = "some"
    /\ scan.interval = Some(2)
    /\ mcu_reader.i = 3
    /\ scan.mcus[1].y.dc = 3 /\ scan.mcus[2].y.dc = -1 /\ scan.mcus[3].y.dc = 5
    /\ last.blocks[1][1] = 5

\* C3 (as claimed): after a DRI segment with interval 0, every call of next
\* does what it does with no restart interval: same result, same blocks, same
\* reader, same predictors.
C3_Step ==
    (dec.pc = "scan" /\ status = "run" /\ scan.interval = Some(0)
        /\ last'.op = "next" /\ last'.calls = last.calls + 1)
    => LET no == McuNext([mcu_reader EXCEPT !.reset_interval = None], reader) IN
       /\ last'.st = no.st /\ last'.ret = no.ret /\ last'.blocks = no.blocks
       /\ reader' = no.r
       /\ mcu_reader' = [no.m EXCEPT !.reset_interval = mcu_reader.reset_interval]

C3_ZeroInterval == [][C3_Step]_vars

\* ------------------------------------------------ damaged files: actions

\* A luma block whose fourth ZRL moves the index from 49 to 65.
ZrlOverrun == [dc |-> 0, ac |-> << <<15, 0>>, <<15, 0>>, <<15, 0>>, <<15, 0>> >>]

\* A luma block whose last pair puts a value at index 49 + 15.
RunOverrun ==
    [dc |-> 1, ac |-> << <<15, 0>>, <<15, 0>>, <<15, 0>>, <<15, 1>> >>]

OverrunPatterns ==
    {[y |-> ZrlOverrun, cb |-> DcBlock(0), cr |-> DcBlock(0)],
     [y |-> RunOverrun, cb |-> DcBlock(0), cr |-> DcBlock(0)]}

\* The frames of one and of two MCUs.
SmallFrames == {[w |-> 8, h |-> 8, ys |-> 17], [w |-> 9, h |-> 8, ys |-> 17]}

\* The length of the entropy-coded data of a scan with no restart interval.
DataLen(f, mcus) == Len(IntervalBytes(mcus, (f.ys \div 16) * (f.ys % 16), 0, 1, 0))

\* Files with a block that overruns its 64 coefficients, and well-formed
\* files that end cut bytes early, inside the entropy-coded data.
InitDamaged ==
    /\ \E f \in SmallFrames :
       \/ \E mcus \in [1..FrameMcus(f) -> McuPatterns \cup OverrunPatterns] :
            /\ \E k \in 1..FrameMcus(f) : mcus[k] \in OverrunPatterns
            /\ scan = [frame |-> f, mcus |-> mcus, interval |-> None, cut |-> 0]
            /\ stream = FileBytes(f, mcus, None)
       \/ \E mcus \in [1..FrameMcus(f) -> McuPatterns] :
          \E cut \in 3..(2 + DataLen(f, mcus)) :
            /\ scan = [frame |-> f, mcus |-> mcus, interval |-> None, cut |-> cut]
            /\ stream = SubSeq(FileBytes(f, mcus, None), 1,
                               Len(FileBytes(f, mcus, None)) - cut)
    /\ profile \in Profiles
    /\ chunk \in ChunkSizes
    /\ reader = NewBitReader
    /\ status = "run"
    /\ last = NoRead
    /\ nbits = 0
    /\ dec = ReadLocals
    /\ mcu_reader = NoMcuReader

SpecDamaged == InitDamaged /\ [][NextDecode]_vars

\* ------------------------------------ damaged files: reference and claims

\* Whether the pairs of an AC part, read from index i on, leave the block:
\* a value at index i + run >= 64, or a ZRL that ends beyond index 63.
RECURSIVE AcOverruns(_, _)
AcOverruns(ac, i) ==
    IF ac = <<>> THEN FALSE
    ELSE IF ac[1] = <<15, 0>>
    THEN i + 16 > 64 \/ AcOverruns(Tail(ac), i + 16)
    ELSE i + ac[1][1] >= 64 \/ AcOverruns(Tail(ac), i + ac[1][1] + 1)

\* The number of the first MCU of the scan with such a block.
FirstOverrun ==
    SetMin({k \in 1..Len(scan.mcus) :
                \E b \in {scan.mcus[k].y, scan.mcus[k].cb, scan.mcus[k].cr} :
                    AcOverruns(b.ac, 1)})

\* C11 (as claimed): the call of next that reads an MCU with a block whose
\* AC symbols run past index 63 returns an error result; it neither panics
\* nor returns the MCU.
C11_AcBounds ==
    (dec.pc = "scan" /\ scan.cut = 0 /\ last.op = "next"
        /\ last.calls = FirstOverrun)
    => last.st = "err_invalid" /\ last.ret = "stop"

\* The position in the file of the first byte of the entropy-coded data.
DataStart ==
    Len(FileBytes(scan.frame, scan.mcus, scan.interval))
        - Len(IntervalBytes(scan.mcus, ScanBlocks[1], ScanInterval, 1, 0)) - 2

\* The bytes of entropy-coded data that hold the MCUs 1..k of a scan with
\* no restart interval.
DataUpTo(k) ==
    Len(PackBytes(McusBits(SubSeq(scan.mcus, 1, k), ScanBlocks[1], 1, k)))

\* C13 (as claimed): on a file that ends inside the entropy-coded data, a
\* call of next returns an MCU only if all its bytes are there, the call that
\* needs a missing byte returns an error result, and nothing panics.
C13_Truncated ==
    (dec.pc = "scan" /\ scan.cut > 0) =>
        /\ status \in {"run", "err_eof"}
        /\ last.op = "next" =>
            /\ last.ret # "none"
            /\ last.ret = "some" => DataStart + DataUpTo(last.calls) <= Len(stream)
            /\ last.ret = "stop" => last.st = "err_eof"

\* ------------------------------------------------------- SOF0: actions

\* The orders in which a frame header lists its components; a fourth entry
\* repeats an id.
ComponentOrders ==
    {<<1, 2, 3, 1>>, <<1, 3, 2, 2>>, <<2, 1, 3, 3>>, <<2, 3, 1, 1>>, <<3, 1, 2, 2>>,
     <<3, 2, 1, 3>>}

\* The body of a SOF0 segment: precision p, n components listed in the order
\* ids, the k-th one listed with the sampling byte s[k] and the table k - 1.
SofBody(p, n, ids, s) ==
    Be16(8 + 3 * n) \o <<p>> \o Be16(16) \o Be16(24) \o <<n>>
        \o [k \in 1..(3 * n) |->
                CASE k % 3 = 1 -> ids[((k - 1) \div 3) + 1]
                  [] k % 3 = 2 -> s[((k - 1) \div 3) + 1]
                  [] OTHER -> ((k - 1) \div 3)]

InitFrame ==
    /\ \E p \in {8, 12, 0}, n \in 0..4, ids \in ComponentOrders,
          s \in [1..4 -> {17, 34}] :
            stream = SofBody(p, n, ids, s)
    /\ profile \in Profiles
    /\ chunk = 1
    /\ reader = NewBitReader
    /\ status = "run"
    /\ last = [op |-> "none", st |-> "ok", sof |-> NoFrame]
    /\ nbits = 0
    /\ dec = [pos |-> 0]
    /\ mcu_reader = NoMcuReader
    /\ scan = <<>>

DoReadStartOfFrame0 ==
    /\ status = "run"
    /\ last.op = "none"
    /\ \E r \in {ReadStartOfFrame0(dec.pos)} :
        /\ dec' = [dec EXCEPT !.pos = r.pos]
        /\ last' = [op |-> "read_start_of_frame_0", st |-> r.st, sof |-> r.sof]
    /\ UNCHANGED <<stream, profile, chunk, reader, status, nbits, mcu_reader, scan>>

NextFrame == DoReadStartOfFrame0

SpecFrame == InitFrame /\ [][NextFrame]_vars

\* ------------------------------------------- SOF0: reference and claims

\* The fields of the segment: precision, component count, and for the k-th
\* listed component its id and its sampling byte.
SofPrecision == stream[3]
SofCount == stream[8]
SofId(k) == stream[8 + 3 * k - 2]
SofSampling(k) == stream[8 + 3 * k - 1]

\* C14 (as claimed): read_start_of_frame_0 returns an error unless the
\* precision is 8 and there are 3 components; then it returns the frame with
\* the component of id k in slot k - 1 and the maxima of the sampling factors.
C14_FrameHeader ==
    last.op = "read_start_of_frame_0" =>
        IF SofPrecision # 8 \/ SofCount # 3 THEN last.st = "err_invalid"
        ELSE /\ last.st = "ok"
             /\ \A k \in 1..3 :
                  /\ last.sof.component_infos[SofId(k)].horizontal_sampling
                        = SofSampling(k) \div 16
                  /\ last.sof.component_infos[SofId(k)].vertical_sampling
                        = SofSampling(k) % 16
                  /\ last.sof.component_infos[SofId(k)].quant_table_id = k - 1
             /\ last.sof.max_horizontal_sampling
                    = MaxOf({SofSampling(k) \div 16 : k \in 1..3})
             /\ last.sof.max_vertical_sampling
                    = MaxOf({SofSampling(k) % 16 : k \in 1..3})

\* --------------------------------------------- sampling layouts: actions

\* A sampling byte for each component: factors 1 and 2.
SamplingBytes == {17, 18, 33, 34}

Layouts == [1..3 -> SamplingBytes]

\* The blocks of a component whose sampling byte is s.
SizeOf(s) == (s \div 16) * (s % 16)

\* The frame header of a layout: component k has the sampling byte s[k].
SegSOFLayout(w, h, s) ==
    <<255, 192, 0, 17, 8>> \o Be16(h) \o Be16(w)
        \o <<3, 1, s[1], 0, 2, s[2], 0, 3, s[3], 0>>

\* The bits of one MCU of a layout: every block of a component alike.
LayoutMcuBits(p, s) ==
    Repeat(BlockBits(p.y), SizeOf(s[1])) \o Repeat(BlockBits(p.cb), SizeOf(s[2]))
        \o Repeat(BlockBits(p.cr), SizeOf(s[3]))

RECURSIVE LayoutBits(_, _)
LayoutBits(mcus, s) ==
    IF mcus = <<>> THEN <<>> ELSE LayoutMcuBits(Head(mcus), s) \o LayoutBits(Tail(mcus), s)

\* The number of MCUs of a frame of w x h pixels in the layout s.
LayoutMcus(w, h, s) ==
    Ceil(w, 8 * MaxOf({s[k] \div 16 : k \in 1..3}))
        * Ceil(h, 8 * MaxOf({s[k] % 16 : k \in 1..3}))

LayoutFile(w, h, s, mcus) ==
    SegSOI \o SegAPP0 \o SegDQT \o SegSOFLayout(w, h, s) \o SegDHT \o SegSOS
        \o PackBytes(LayoutBits(mcus, s)) \o SegEOI

LayoutWidths == {8, 16}

InitLayout ==
    /\ \E w \in LayoutWidths, s \in Layouts :
       \E mcus \in [1..LayoutMcus(w, 8, s) -> McuPatterns] :
            /\ scan = [frame |-> [w |-> w, h |-> 8, ys |-> s[1]], mcus |-> mcus,
                       interval |-> None, cut |-> 0, s |-> s]
            /\ stream = LayoutFile(w, 8, s, mcus)
    /\ profile \in Profiles
    /\ chunk \in ChunkSizes
    /\ reader = NewBitReader
    /\ status = "run"
    /\ last = NoRead
    /\ nbits = 0
    /\ dec = ReadLocals
    /\ mcu_reader = NoMcuReader

SpecLayout == InitLayout /\ [][NextDecode]_vars

\* `if size[k] == 1 && sof.max_vertical_sampling == 2 { upsample_2x2 }`:
\* whether to_rgb upsamples the blocks of component c.
Upsample(sof, c) ==
    /\ sof.component_infos[c].horizontal_sampling
            * sof.component_infos[c].vertical_sampling = 1
    /\ sof.max_vertical_sampling = 2

\* ---------------------------------- sampling layouts: reference and claims

\* The two layouts of the format: Y 1x1 or 2x2, Cb and Cr 1x1.
Accepted(s) == s[1] \in {17, 34} /\ s[2] = 17 /\ s[3] = 17

\* C15 (as claimed): a file whose layout is not one of the two accepted ones
\* ends in an error and no call of next returns a cell; for the accepted
\* layouts the chroma blocks of a returned cell are upsampled exactly when
\* max_h = max_v = 2.
C15_Layouts ==
    dec.pc = "scan" =>
        IF Accepted(scan.s)
        THEN (last.op = "next" /\ last.ret = "some") =>
                \A c \in 2..3 :
                    Upsample(mcu_reader.sof, c)
                        <=> (mcu_reader.sof.max_horizontal_sampling = 2
                             /\ mcu_reader.sof.max_vertical_sampling = 2)
        ELSE /\ status \in {"run", "err_invalid"}
             /\ last.op = "next" => (last.ret = "stop" /\ last.st = "err_invalid")

\* ------------------------------------------------------ to_rgb: one pixel

\* `x >> 10` (i32, arithmetic).
Sar10(x) == x \div 1024

\* `clamp(i8::MIN, i8::MAX)`.
ClampI8(x) == IF x < -128 THEN -128 ELSE IF x > 127 THEN 127 ELSE x

\* `(((x >> 10) as i16).clamp(i8::MIN as _, i8::MAX as _) as i8 as u8) ^ 0x80`:
\* the flip of the sign bit of a value of -128..127 adds 128.
Chomp(x) == ClampI8(WrapI16(Sar10(x))) + 128

\* `(x * 1024.0) as i32` for x = thousandths / 1000: the cast truncates.
Fixed(thousandths) == (thousandths * 1024) \div 1000

\* The colour of one pixel in Mcu::to_rgb: [r, g, b].
ToRgb(y, cb, cr) ==
    Let(y * 1024, LAMBDA y10 :
        [r |-> Chomp(y10 + Fixed(1402) * cr),
         g |-> Chomp(y10 - Fixed(344) * cb - Fixed(714) * cr),
         b |-> Chomp(y10 + Fixed(1772) * cb)])

\* ------------------------------------------------------- to_rgb: actions

\* Spatial values of a pixel: the ends of i16 and values between.
PixelValues == {-32768, -5, 0, 87, 1000, 32767}

InitRgb ==
    /\ \E y \in PixelValues, cb \in PixelValues, cr \in PixelValues :
            last = [op |-> "none", y |-> y, cb |-> cb, cr |-> cr,
                    rgb |-> [r |-> 0, g |-> 0, b |-> 0]]
    /\ stream = <<>>
    /\ profile \in Profiles
    /\ chunk = 1
    /\ reader = NewBitReader
    /\ status = "run"
    /\ nbits = 0
    /\ dec = [pos |-> 0]
    /\ mcu_reader = NoMcuReader
    /\ scan = <<>>

DoToRgb ==
    /\ last.op = "none"
    /\ last' = [last EXCEPT !.op = "to_rgb", !.rgb = ToRgb(last.y, last.cb, last.cr)]
    /\ UNCHANGED <<stream, profile, chunk, reader, status, nbits, dec, mcu_reader, scan>>

NextRgb == DoToRgb

SpecRgb == InitRgb /\ [][NextRgb]_vars

\* ------------------------------------------ to_rgb: reference and claims

\* The byte of a full-width value: shifted, clamped, sign bit flipped.
ClampedByte(x) == ClampI8(x \div 1024) + 128

\* C16 (as claimed): the pixel of (Y, Cb, Cr) is
\* r = clamp((1024 Y + 1436 Cr) >> 10) ^ 0x80,
\* g = clamp((1024 Y - 352 Cb - 731 Cr) >> 10) ^ 0x80,
\* b = clamp((1024 Y + 1815 Cb) >> 10) ^ 0x80, the clamp to -128..127 being
\* applied to the whole shifted value.
C16_ToRgb ==
    last.op = "to_rgb" =>
        /\ last.rgb.r = ClampedByte(1024 * last.y + 1436 * last.cr)
        /\ last.rgb.g = ClampedByte(1024 * last.y - 352 * last.cb - 731 * last.cr)
        /\ last.rgb.b = ClampedByte(1024 * last.y + 1815 * last.cb)

\* ----------------------------------------------------------------- idct

MaxI32 == 2147483647

MinI32 == -MaxI32 - 1

\* 1024 cos(k pi / 16), rounded, for k = 0..8.
CosTable == <<1024, 1004, 946, 851, 724, 569, 392, 200, 0>>

\* `IDCT[i][j]`: round(1024 cos((2i + 1) j pi / 16)), the column 0 scaled by
\* 1 / sqrt 2.
Idct(i, j) ==
    IF j = 0 THEN 724
    ELSE Let(((2 * i + 1) * j) % 32, LAMBDA m :
            IF m <= 8 THEN CosTable[m + 1]
            ELSE IF m <= 16 THEN -CosTable[16 - m + 1]
            ELSE IF m <= 24 THEN -CosTable[m - 16 + 1]
            ELSE CosTable[32 - m + 1])

\* x + y in i32, wrapped: [v, of].
AddI32(x, y) ==
    IF y >= 0 /\ x > MaxI32 - y
    THEN [v |-> (x - MaxI32 - 1) + (y - MaxI32 - 1), of |-> TRUE]
    ELSE IF y < 0 /\ x < MinI32 - y
    THEN [v |-> (x + MaxI32 + 1) + (y + MaxI32 + 1), of |-> TRUE]
    ELSE [v |-> x + y, of |-> FALSE]

\* a * b in i32 for an entry b of IDCT and |a| <= 2^28, wrapped: [v, of].
\* The wrapped product is taken from the two 16-bit halves of a.
MulI32(a, b) ==
    IF b = 0 \/ Abs(a) <= MaxI32 \div Abs(b) THEN [v |-> a * b, of |-> FALSE]
    ELSE [v |-> AddI32(WrapI16(((a \div 65536) * b) % 65536) * 65536,
                       (a % 65536) * b).v,
          of |-> TRUE]

\* `res1[k]` for k = j * 8 + i: the sum over x of self[i * 8 + x] * idct[j][x];
\* eight products of an i16 and an entry of IDCT fit i32.
Res1(block, k) ==
    Let(k % 8, LAMBDA i : Let(k \div 8, LAMBDA j :
        block[i * 8 + 1] * Idct(j, 0) + block[i * 8 + 2] * Idct(j, 1)
            + block[i * 8 + 3] * Idct(j, 2) + block[i * 8 + 4] * Idct(j, 3)
            + block[i * 8 + 5] * Idct(j, 4) + block[i * 8 + 6] * Idct(j, 5)
            + block[i * 8 + 7] * Idct(j, 6) + block[i * 8 + 8] * Idct(j, 7)))

\* `v += res1[j * 8 + x] * idct[i][x]` for x = n..7, from acc = [v, of].
RECURSIVE Pass2Sum(_, _, _, _, _)
Pass2Sum(block, i, j, n, acc) ==
    IF n = 8 THEN acc
    ELSE Let(MulI32(Res1(block, j * 8 + n), Idct(i, n)), LAMBDA p :
         Let(AddI32(acc.v, p.v), LAMBDA s :
            Pass2Sum(block, i, j, n + 1,
                     [v |-> s.v, of |-> acc.of \/ p.of \/ s.of])))

\* `v / 4` (i32): the quotient is truncated towards zero.
TruncDiv4(v) == IF v >= 0 THEN v \div 4 ELSE (v + 3) \div 4

\* `>> 20` (i32, arithmetic).
Sar20(v) == v \div 1048576

\* `res2[k]` for k = i * 8 + j: [v, of].
Res2(block, k) ==
    Let(Pass2Sum(block, k \div 8, k % 8, 0, [v |-> 0, of |-> FALSE]), LAMBDA s :
        [v |-> WrapI16(Sar20(TruncDiv4(s.v))), of |-> s.of])

\* Block::idct: [st, of, out]; an overflow stops a debug build.
IdctBlock(block) ==
    Let([k \in 1..64 |-> Res2(block, k - 1)], LAMBDA res :
        [of |-> \E k \in 1..64 : res[k].of,
         st |-> IF profile = "debug" /\ \E k \in 1..64 : res[k].of
                THEN "panic_overflow" ELSE "ok",
         out |-> [k \in 1..64 |-> res[k].v]])

\* --------------------------------------------------------- idct: actions

\* The DC coefficients of the blocks: around 0, around the largest one whose
\* second pass fits i32, and the ends of i16.
DcValues ==
    (-10..10) \cup (4090..4100) \cup (-4100..-4090) \cup {-32768, -1024, 1024, 32767}

DcOnly(d) == [k \in 1..64 |-> IF k = 1 THEN d ELSE 0]

InitIdct ==
    /\ \E d \in DcValues :
            last = [op |-> "none", block |-> DcOnly(d), st |-> "ok", of |-> FALSE,
                    out |-> DcOnly(0)]
    /\ stream = <<>>
    /\ profile \in Profiles
    /\ chunk = 1
    /\ reader = NewBitReader
    /\ status = "run"
    /\ nbits = 0
    /\ dec = [pos |-> 0]
    /\ mcu_reader = NoMcuReader
    /\ scan = <<>>

DoIdct ==
    /\ status = "run"
    /\ last.op = "none"
    /\ \E z \in {IdctBlock(last.block)} :
        /\ last' = [last EXCEPT !.op = "idct", !.st = z.st, !.of = z.of, !.out = z.out]
        /\ status' = IF z.st = "ok" THEN "run" ELSE z.st
    /\ UNCHANGED <<stream, profile, chunk, reader, nbits, dec, mcu_reader, scan>>

NextIdct == DoIdct

SpecIdct == InitIdct /\ [][NextIdct]_vars

\* ------------------------------------------- idct: reference and claims

\* C17 (as claimed): idct maps the all-zero block to the all-zero block, and
\* the block whose only non-zero coefficient is the DC coefficient D, any
\* i16, to a block of 64 equal samples within 1 of D / 8, without any i32
\* overflow.
C17_DcOnly ==
    last.op = "idct" =>
        /\ last.st = "ok"
        /\ ~last.of
        /\ \A k \in 1..64 : last.out[k] = last.out[1]
        /\ 8 * last.out[1] - last.block[1] \in -8..8
        /\ last.block[1] = 0 => last.out[1] = 0

\* ------------------------------------------------------- the main driver

\* The widest and the highest image.
MaxSide == 18

\* The two MCU sizes: max_h = max_v = 1 and max_h = max_v = 2.
McuSamplings == {1, 2}

\* `8 * max_sampling`: StartOfFrameInfo::mcu_width / mcu_height.
McuSize(sampling) == 8 * sampling

\* PpmWriter::write_slice: the bytes of n pixels.
WriteSlice(n) == n * 3

\* The pixels of a row written without the trimming to the width left.
RECURSIVE WriteRowUntrimmed(_, _)
WriteRowUntrimmed(slices, width) ==
    IF slices = 0 THEN 0 ELSE 8 + WriteRowUntrimmed(slices - 1, width)

\* `for mcu in mcus.iter().flat_map(|mcu| mcu.line(h)) { let len =
\*  mcu.len().min(width); write_slice(&mcu[..len]); width -= len; }`: the
\* pixels written of the given number of 8-pixel slices.
RECURSIVE WriteRow(_, _)
WriteRow(slices, width) ==
    IF slices = 0 THEN 0
    ELSE Min(8, width) + WriteRow(slices - 1, width - Min(8, width))

\* McuRGB::line(h) of n cells of width_blocks blocks: the number of slices.
LineSlices(n, width_blocks) == n * width_blocks

\* `for h in 0..decoder.mcu_height() { ...; height -= 1; if height == 0
\*  { break; } }` from row h on; d is [height, rows, payload, trimmed].
RECURSIVE EmitRows(_, _, _)
EmitRows(h, f, d) ==
    IF h = McuSize(f.max_v) THEN d
    ELSE IF d.height = 1
    THEN [height |-> 0, rows |-> d.rows + 1,
          payload |-> d.payload + WriteSlice(WriteRow(LineSlices(f.n, f.max_h), f.w)),
          trimmed |-> d.trimmed /\ WriteRow(LineSlices(f.n, f.max_h), f.w) = f.w]
    ELSE EmitRows(h + 1, f,
            [height |-> d.height - 1, rows |-> d.rows + 1,
             payload |-> d.payload + WriteSlice(WriteRow(LineSlices(f.n, f.max_h), f.w)),
             trimmed |-> d.trimmed /\ WriteRow(LineSlices(f.n, f.max_h), f.w) = f.w])

\* main before its loop: decoder.read() has returned the reader of a frame.
InitDriver ==
    /\ \E w \in 1..MaxSide, h \in 1..MaxSide, s \in McuSamplings :
        /\ scan = [w |-> w, h |-> h, max_h |-> s, max_v |-> s]
        /\ mcu_reader = [i |-> 0,
                         total |-> McuSizeNum(h, s).v * McuSizeNum(w, s).v]
        /\ last = [op |-> "loop", mcus |-> 0, height |-> h, rows |-> 0, payload |-> 0,
                   trimmed |-> TRUE]
    /\ stream = <<>>
    /\ profile \in Profiles
    /\ chunk = 1
    /\ reader = NewBitReader
    /\ status = "run"
    /\ nbits = 0
    /\ dec = [pos |-> 0]

\* An iteration of `while let Some(mcu) = decoder.next().unwrap()` whose
\* next returns a cell.
DoDriverCell ==
    /\ last.op = "loop"
    /\ mcu_reader.i < mcu_reader.total
    /\ mcu_reader' = [mcu_reader EXCEPT !.i = @ + 1]
    /\ IF last.mcus + 1 = McuSizeNum(scan.w, scan.max_h).v
       THEN \E d \in {EmitRows(0, [n |-> last.mcus + 1, max_h |-> scan.max_h,
                                   max_v |-> scan.max_v, w |-> scan.w],
                               [height |-> last.height, rows |-> last.rows,
                                payload |-> last.payload, trimmed |-> last.trimmed])} :
                last' = [op |-> "loop", mcus |-> 0, height |-> d.height,
                         rows |-> d.rows, payload |-> d.payload, trimmed |-> d.trimmed]
       ELSE last' = [last EXCEPT !.mcus = @ + 1]
    /\ UNCHANGED <<stream, profile, chunk, reader, status, nbits, dec, scan>>

\* The iteration whose next returns None: the loop and main end.
DoDriverEnd ==
    /\ last.op = "loop"
    /\ mcu_reader.i = mcu_reader.total
    /\ last' = [last EXCEPT !.op = "done"]
    /\ UNCHANGED <<stream, profile, chunk, reader, status, nbits, dec, mcu_reader, scan>>

NextDriver == DoDriverCell \/ DoDriverEnd

SpecDriver == InitDriver /\ [][NextDriver]_vars

\* -------------------------------------- main driver: reference and claims

\* C18: when the loop of main ends it has written W * H * 3 bytes after the
\* header: H rows, each of them trimmed to W pixels, and no row of an MCU
\* beyond row H.
C18_Payload ==
    /\ last.trimmed
    /\ last.rows <= scan.h
    /\ last.payload = scan.w * last.rows * 3
    /\ last.op = "done" => (last.rows = scan.h /\ last.payload = scan.w * scan.h * 3)

\* C18: main has ended on an image of the larger MCU size whose last column
\* and last row of MCUs both overhang.
C18_Witness ==
    /\ last.op = "done"
    /\ scan.max_h = 2
    /\ scan.w % 16 # 0
    /\ scan.h % 16 # 0
    /\ mcu_reader.total > 1

\* ------------------------------------- restart boundaries: the bit reader

\* The position in the file of the first byte of the interval that starts
\* with MCU a of the scan.
IntervalStart(a) ==
    Len(stream) - Len(SegEOI)
        - Len(IntervalBytes(scan.mcus, ScanBlocks[1], ScanInterval, a, 0))

\* C19 (as claimed): when next has returned the last MCU of an interval that
\* another interval follows, reset has run: the marker has been consumed once,
\* the reader stands at the first byte of the next interval, and buf and
\* count are 0, whether or not a peek had already read the marker.
C19_ResetAtBoundary ==
    (/\ dec.pc = "scan"
     /\ last.op = "next"
     /\ last.calls > 0
     /\ last.calls < Len(scan.mcus)
     /\ ScanInterval > 0
     /\ last.calls % ScanInterval = 0)
    => /\ last.st = "ok"
       /\ reader.buf = 0
       /\ reader.count = 0
       /\ reader.pos = IntervalStart(last.calls + 1)

\* ------------------------------------------------------ peek_16: actions

\* The length of the streams of the peek_16 runs.
Peek16Len == 4

\* Bytes one read of the source returns in the peek_16 runs.
Peek16Chunks == {1, 2, 4}

\* The code lengths consumed after a peek_16.
Peek16Consumes == {4, 9, 16}

\* Whether peek_16 takes its fast path in the reader state r.
FastPath(r) ==
    /\ r.bend - r.pos >= 2
    /\ stream[r.pos + 1] # 255
    /\ stream[r.pos + 2] # 255
    /\ r.count < 16

\* dec is a second bit reader over the same stream, on which every peek_16
\* is replaced by peek(16).
InitPeek16 ==
    /\ stream \in [1..Peek16Len -> Bytes]
    /\ profile \in Profiles
    /\ chunk \in Peek16Chunks
    /\ reader = NewBitReader
    /\ dec = NewBitReader
    /\ status = "run"
    /\ last = [op |-> "none", n |-> 0, v |-> 0, st |-> "ok", slow_v |-> 0,
               slow_st |-> "ok", fast |-> FALSE, two |-> FALSE]
    /\ nbits = 0
    /\ mcu_reader = NoMcuReader
    /\ scan = <<>>

DoPeek16 ==
    /\ status = "run"
    /\ \E p \in {Peek16(reader)}, q \in {Peek(dec, 16)} :
       /\ reader' = p.r
       /\ dec' = q.r
       /\ status' = IF p.st = "ok" THEN "run" ELSE p.st
       /\ last' = [op |-> "peek_16", n |-> 16, v |-> p.v, st |-> p.st, slow_v |-> q.v,
                   slow_st |-> q.st, fast |-> FastPath(reader),
                   two |-> FastPath(reader) /\ reader.count < 8]
    /\ UNCHANGED <<stream, profile, chunk, nbits, mcu_reader, scan>>

DoConsume16(n) ==
    /\ status = "run"
    /\ n <= reader.count
    /\ n <= dec.count
    /\ reader' = Consume(reader, n)
    /\ dec' = Consume(dec, n)
    /\ nbits' = nbits + n
    /\ last' = [last EXCEPT !.op = "consume", !.n = n, !.fast = FALSE, !.two = FALSE]
    /\ UNCHANGED <<stream, profile, chunk, status, mcu_reader, scan>>

NextPeek16 ==
    \/ DoPeek16
    \/ \E n \in Peek16Consumes : DoConsume16(n)

SpecPeek16 == InitPeek16 /\ [][NextPeek16]_vars

\* ----------------------------------------- peek_16: reference and claims

\* C20: a reader that peeks with peek_16 and a reader that peeks with
\* peek(16) over the same stream agree after every call: the same value and
\* outcome, the same buf, count and stream position.
C20_FastEqualsSlow ==
    /\ last.v = last.slow_v
    /\ last.st = last.slow_st
    /\ reader.buf = dec.buf
    /\ reader.count = dec.count
    /\ reader.pos = dec.pos

\* C20: the last peek_16 took the one-byte fast path after an earlier one had
\* taken bytes from the buffer.
C20_Witness ==
    /\ last.op = "peek_16"
    /\ last.fast
    /\ ~last.two
    /\ nbits > 0
    /\ reader.buf > 0

\* ------------------------------------------ bit reader, every operation

\* The length of the streams of these runs.
ReaderLen == 2

\* The lengths read_value is called with: read_ac passes the low 4 bits of an
\* AC symbol, read_dc the whole DC symbol of the table, any u8.
ReaderLens == {0, 3, 16, 17}

\* No more bits are consumed once this many have been.
ReaderBits == 40

\* A table with the codes 0, 10 and 110 for the symbols 0, 3 and 17.
ReaderMap == (2 :> 0) @@ (6 :> 3) @@ (14 :> 17)

InitReader ==
    /\ stream \in [1..ReaderLen -> Bytes]
    /\ profile \in Profiles
    /\ chunk \in ChunkSizes
    /\ reader = NewBitReader
    /\ status = "run"
    /\ last = NoCall
    /\ nbits = 0
    /\ dec = [pos |-> 0]
    /\ mcu_reader = NoMcuReader
    /\ scan = <<>>

DoReaderPeek16 ==
    /\ status = "run"
    /\ \E p \in {Peek16(reader)} :
       /\ reader' = p.r
       /\ status' = IF p.st = "ok" THEN "run" ELSE p.st
       /\ last' = [op |-> "peek_16", n |-> 16, v |-> p.v, st |-> p.st]
    /\ UNCHANGED <<stream, profile, chunk, nbits, dec, mcu_reader, scan>>

DoReadDecodeHaffman ==
    /\ status = "run"
    /\ nbits < ReaderBits
    /\ \E q \in {Peek16(reader)}, p \in {ReadDecodeHaffman(reader, ReaderMap)} :
       /\ reader' = p.r
       /\ status' = IF p.st = "ok" THEN "run" ELSE p.st
       /\ last' = [op |-> "read_decode_haffman", n |-> 16, v |-> p.val, st |-> p.st]
       /\ nbits' = IF p.st = "ok" THEN nbits + (q.r.count - p.r.count) ELSE nbits
    /\ UNCHANGED <<stream, profile, chunk, dec, mcu_reader, scan>>

DoReset ==
    /\ status = "run"
    /\ \E z \in {Reset(reader)} :
       /\ reader' = z.r
       /\ status' = IF z.st = "ok" THEN "run" ELSE z.st
       /\ last' = [op |-> "reset", n |-> 0, v |-> 0, st |-> z.st]
    /\ UNCHANGED <<stream, profile, chunk, nbits, dec, mcu_reader, scan>>

ReaderConsume(n) == nbits < ReaderBits /\ DoConsume(n)

ReaderReadValue(len) == nbits < ReaderBits /\ DoReadValue(len)

NextReader ==
    \/ \E n \in PeekSizes : DoPeek(n)
    \/ DoReaderPeek16
    \/ \E n \in ConsumeSizes : ReaderConsume(n)
    \/ \E len \in ReaderLens : ReaderReadValue(len)
    \/ DoReadDecodeHaffman
    \/ DoReset

SpecReader == InitReader /\ [][NextReader]_vars

\* --------------------------- bit reader, every operation: reference, claims

\* C21 (as claimed): in every state the operations of the bit reader reach,
\* count <= 32 and the bits of buf above count are zero, and after a peek of
\* n bits has returned, count >= n.  A consume of more bits than count shows
\* as a count above 32.  buf < 2^31 in every state, which is the claim for
\* count = 31 and 32.
C21_Accumulator ==
    /\ reader.count <= 32
    /\ reader.count < 31 => reader.buf < Pow2(reader.count)
    /\ (last.op \in {"peek", "peek_16"} /\ last.st = "ok") => reader.count >= last.n

\* ------------------------------------- Decoder::read, skip_app step by step

\* Whether the next marker of the stream after pos is an APPn.
AppNext(pos) ==
    NextMarker(pos).st = "ok" /\ NextMarker(pos).marker.name = "APP"

\* `len as usize - 2` for len < 2 in a release build: more than any stream
\* holds, kept as one more than the length of the stream; what the loop
\* subtracts from it never brings it to 0.
WrappedLen == Len(stream) + 1

\* What `self.reader.fill_buf()?.len()` can be at position pos: 0 at the end
\* of the stream, else the bytes left in the buffer or read into it.
FillBufLens(pos) ==
    IF pos >= Len(stream) THEN {0} ELSE 1..Min(chunk, Len(stream) - pos)

\* Two whole header sequences; the streams are their prefixes.
HeaderFiles ==
    {SegSOI \o SegAPP0 \o SegDQT \o SegSOF(192, 8, 8, 17) \o SegDHT \o SegSOS,
     SegSOI \o SegCOM \o SegDRI(1) \o <<255, 225, 0, 6, 69, 120, 105, 102>>
        \o SegSOF(192, 8, 8, 17) \o SegSOS}

InitSkip ==
    /\ \E f \in HeaderFiles : \E n \in 0..Len(f) : stream = SubSeq(f, 1, n)
    /\ profile \in Profiles
    /\ chunk \in ChunkSizes
    /\ reader = NewBitReader
    /\ status = "run"
    /\ last = NoRead
    /\ nbits = 0
    /\ dec = [pos |-> 0, pc |-> "loop", quantization_tables |-> <<>>,
              huffman_tables |-> <<>>, sof |-> None, restart_interval |-> None,
              len |-> 0, iter |-> 0]
    /\ mcu_reader = NoMcuReader
    /\ scan = <<>>

\* An iteration of the loop of Decoder::read on a marker other than APPn.
DoReadOther ==
    /\ ~AppNext(dec.pos)
    /\ DoReadSegment

\* next_marker gives APPn: skip_app up to its loop.
DoSkipAppEnter ==
    /\ status = "run"
    /\ dec.pc = "loop"
    /\ AppNext(dec.pos)
    /\ \E h \in {DecReadU16(NextMarker(dec.pos).pos)} :
       \E st \in {IF h.st # "ok" THEN h.st
                  ELSE IF h.v < 2 /\ profile = "debug" THEN "panic_overflow"
                  ELSE "ok"} :
        /\ status' = IF st = "ok" THEN "run" ELSE st
        /\ dec' = IF st = "ok"
                  THEN [dec EXCEPT !.pos = h.pos,
                                   !.len = IF h.v < 2 THEN WrappedLen ELSE h.v - 2,
                                   !.pc = IF h.v = 2 THEN "loop" ELSE "skip_app"]
                  ELSE [dec EXCEPT !.pos = h.pos]
        /\ last' = [NoRead EXCEPT !.op = "skip_app", !.st = st]
    /\ UNCHANGED <<stream, profile, chunk, reader, nbits, mcu_reader, scan>>

\* `while len != 0 { let l = fill_buf()?.len().min(len); consume(l);
\*  len -= l; }`: one iteration; iter counts the iterations modulo 2.
DoSkipAppIter ==
    /\ status = "run"
    /\ dec.pc = "skip_app"
    /\ \E n \in FillBufLens(dec.pos) :
       \E l \in {Min(n, dec.len)} :
            dec' = [dec EXCEPT !.pos = @ + l, !.len = @ - l, !.iter = 1 - @,
                               !.pc = IF dec.len - l = 0 THEN "loop" ELSE "skip_app"]
    /\ UNCHANGED <<stream, profile, chunk, reader, status, last, nbits, mcu_reader, scan>>

NextSkip == DoReadOther \/ DoSkipAppEnter \/ DoSkipAppIter \/ DoReadScanSetup

\* The program runs on as long as it can take a step.
SpecSkip == InitSkip /\ [][NextSkip]_vars /\ WF_vars(NextSkip)

\* --------------------------------------------------- Decoder::read: ending

\* C22 (as claimed): on every stream Decoder::read comes to an end: it
\* returns the reader of the scan or an error, or the process stops; it does
\* not loop for ever, also when the stream ends inside an APPn segment.
C22_ReadTerminates == <>(status # "run" \/ dec.pc = "scan")

====
